---- MODULE Spec2Model ----
(***************************************************************************)
(* Verification model of the contrastive pre-training harness              *)
(* (code/train.py) and of its launcher (code/run_script.py).               *)
(*                                                                         *)
(* Learning rates are integers (units of 1e-5).  Python lists and tensors  *)
(* are TLA+ sequences; the VALUES stored in label lists, target lists and  *)
(* index maps are the 0-based indices of the code, so element k of a       *)
(* Python list l is l[k + 1] here.                                         *)
(***************************************************************************)
EXTENDS Integers, Sequences, FiniteSets, TLC

VARIABLES
    args,           \* arguments of the call / configuration of the run
    optimizers,     \* pretrain: the list `optimizers`
    schedulers,     \* every LRScheduler object that has been constructed
    lr_schedulers,  \* pretrain: the list `lr_schedulers` (indices into schedulers)
    e,              \* pretrain: epoch counter of the outer loop
    it,             \* pretrain: minibatches consumed in the current epoch
    pc,             \* position of the control flow
    calls,          \* number of step() calls / loop bodies executed so far
    result          \* what the last call returned or raised

vars == <<args, optimizers, schedulers, lr_schedulers, e, it, pc, calls, result>>

(***************************************************************************)
(* Bounds of the model.                                                    *)
(***************************************************************************)
MaxEpochs == 2
MaxWarmup == 3
MaxIters  == 2
MaxGroups == 2
MaxCalls  == 8

LRValues == {0, 4, 8}

(***************************************************************************)
(* LRScheduler                                                             *)
(***************************************************************************)

\* np.linspace(start, stop, num): num evenly spaced samples, end point
\* included; a single sample is the start value.
linspace(start, stop, num) ==
    IF num <= 0 THEN << >>
    ELSE IF num = 1 THEN << start >>
    ELSE [i \in 1..num |-> start + ((i - 1) * (stop - start)) \div (num - 1)]

\* 1000 * cos(pi * i / d) for 0 <= i < d, by Bhaskara's rational
\* approximation (exact at 0, pi/3, pi/2, 2pi/3 and pi, strictly decreasing).
cos_milli(i, d) ==
    IF 2 * i <= d
    THEN (1000 * (d * d - 4 * i * i)) \div (d * d + i * i)
    ELSE 0 - ((1000 * (d * d - 4 * (d - i) * (d - i))) \div (d * d + (d - i) * (d - i)))

warmup_iter(iter_per_epoch, warmup_epochs) == iter_per_epoch * warmup_epochs

warmup_lr_schedule(warmup_lr, base_lr, wi, flat_warmup) ==
    IF ~flat_warmup
    THEN linspace(warmup_lr, base_lr, wi)
    ELSE linspace(warmup_lr, warmup_lr, wi)

\* Variant: the decay phase is given the whole run instead of what warmup leaves.
decay_iter_whole_run(iter_per_epoch, num_epochs, warmup_epochs) ==
    iter_per_epoch * num_epochs

decay_iter(iter_per_epoch, num_epochs, warmup_epochs) ==
    iter_per_epoch * (num_epochs - warmup_epochs)

\* Variant: the cosine runs from final_lr up to base_lr.
cosine_lr_schedule_rising(base_lr, final_lr, di) ==
    IF di <= 0 THEN << >>
    ELSE [i \in 1..di |->
            final_lr + ((base_lr - final_lr) * (1000 - cos_milli(i - 1, di))) \div 2000]

\* np.arange(decay_iter) is empty when decay_iter <= 0.
cosine_lr_schedule(base_lr, final_lr, di) ==
    IF di <= 0 THEN << >>
    ELSE [i \in 1..di |->
            final_lr + ((base_lr - final_lr) * (1000 + cos_milli(i - 1, di))) \div 2000]

\* np.concatenate((warmup_lr_schedule, cosine_lr_schedule))
lr_schedule(warmup_epochs, warmup_lr, num_epochs, base_lr, final_lr, iter_per_epoch, flat_warmup) ==
    warmup_lr_schedule(warmup_lr, base_lr, warmup_iter(iter_per_epoch, warmup_epochs), flat_warmup)
    \o cosine_lr_schedule(base_lr, final_lr, decay_iter(iter_per_epoch, num_epochs, warmup_epochs))

\* LRScheduler.__init__; `optimizer` is the index of the bound optimizer.
LRScheduler(optimizer, warmup_epochs, warmup_lr, num_epochs, base_lr, final_lr, iter_per_epoch, flat_warmup) ==
    [ base_lr     |-> base_lr,
      lr_schedule |-> lr_schedule(warmup_epochs, warmup_lr, num_epochs, base_lr,
                                  final_lr, iter_per_epoch, flat_warmup),
      optimizer   |-> optimizer,
      iter        |-> 0,
      current_lr  |-> 0 ]

\* The learning rate step() reads: lr_schedule[self.iter].
step_lr(s) == s.lr_schedule[s.iter + 1]

\* Variant: only the first parameter group receives the learning rate.
step_groups_first_only(groups, lr) ==
    [g \in 1..Len(groups) |-> IF g = 1 THEN lr ELSE groups[g]]

\* The parameter groups of an optimizer after step() wrote lr into them.
step_groups(groups, lr) == [g \in 1..Len(groups) |-> lr]

\* LRScheduler.step on scheduler s with the optimizer list opts.  The read of
\* lr_schedule[self.iter] raises IndexError before anything is assigned.
step(s, opts) ==
    IF s.iter >= Len(s.lr_schedule)
    THEN [ status |-> "IndexError", sched |-> s, opts |-> opts, ret |-> << >> ]
    ELSE LET lr == step_lr(s) IN
         [ status |-> "ok",
           sched  |-> [s EXCEPT !.iter = s.iter + 1, !.current_lr = lr],
           opts   |-> [opts EXCEPT ![s.optimizer].param_groups =
                                        step_groups(opts[s.optimizer].param_groups, lr)],
           ret    |-> << lr >> ]

\* A torch optimizer with n parameter groups created with learning rate lr.
Optimizer(n, lr) == [ param_groups |-> [g \in 1..n |-> lr], steps |-> 0 ]

(***************************************************************************)
(* Specification of one scheduler driven by step() calls.                  *)
(***************************************************************************)
InitSched ==
    \E W \in 0..MaxWarmup, E \in 1..MaxEpochs, ipe \in 0..MaxIters,
       wlr \in LRValues, blr \in LRValues, flr \in LRValues,
       flat \in BOOLEAN, n \in 1..MaxGroups :
        /\ args = [ warmup_epochs |-> W, num_epochs |-> E, iter_per_epoch |-> ipe,
                    warmup_lr |-> wlr, base_lr |-> blr, final_lr |-> flr,
                    flat_warmup |-> flat ]
        /\ optimizers = << Optimizer(n, blr) >>
        /\ schedulers = << LRScheduler(1, W, wlr, E, blr, flr, ipe, flat) >>
        /\ lr_schedulers = << 1 >>
        /\ e = 0
        /\ it = 0
        /\ pc = "sched"
        /\ calls = 0
        /\ result = [ status |-> "none", ret |-> << >> ]

Step ==
    /\ pc = "sched"
    /\ calls < MaxCalls
    /\ LET r == step(schedulers[1], optimizers) IN
        /\ schedulers' = [schedulers EXCEPT ![1] = r.sched]
        /\ optimizers' = r.opts
        /\ result' = [ status |-> r.status, ret |-> r.ret ]
    /\ calls' = calls + 1
    /\ UNCHANGED <<args, lr_schedulers, e, it, pc>>

NextSched == Step

SpecSched == InitSched /\ [][NextSched]_vars

(***************************************************************************)
(* Properties of LRScheduler.                                              *)
(***************************************************************************)

\* C1: a step() call at index k < len(lr_schedule) writes lr_schedule[k] into
\* every parameter group of the bound optimizer, moves the index to k + 1 and
\* returns lr_schedule[k]; no step ever lowers the index or changes the
\* precomputed schedule.
C1_StepContract ==
    [][ pc = "sched" =>
          LET s == schedulers[1]
              k == s.iter
          IN  /\ schedulers'[1].iter >= k
              /\ schedulers'[1].lr_schedule = s.lr_schedule
              /\ (calls' = calls + 1 /\ k < Len(s.lr_schedule)) =>
                    /\ schedulers'[1].iter = k + 1
                    /\ \A g \in 1..Len(optimizers[1].param_groups) :
                          optimizers'[1].param_groups[g] = s.lr_schedule[k + 1]
                    /\ Len(optimizers'[1].param_groups) = Len(optimizers[1].param_groups)
                    /\ result'.status = "ok"
                    /\ result'.ret = << s.lr_schedule[k + 1] >> ]_vars

\* C1 witness: two successful steps on an optimizer with two parameter groups,
\* the second of which changed the learning rate.
C1_Witness ==
    /\ pc = "sched"
    /\ schedulers[1].iter = 2
    /\ result.status = "ok"
    /\ Len(optimizers[1].param_groups) = 2
    /\ schedulers[1].lr_schedule[1] # schedulers[1].lr_schedule[2]
    /\ optimizers[1].param_groups[2] = schedulers[1].lr_schedule[2]

\* The learning rate the optimizer holds after k successful steps.
AppliedLR(k) ==
    IF k = 0 THEN args.base_lr ELSE schedulers[1].lr_schedule[k]

\* C2 (as stated): whatever warmup_epochs, num_epochs and iter_per_epoch are,
\* every step() call made after num_epochs * iter_per_epoch successful steps
\* raises IndexError, the schedule having exactly that many entries.
C2_Original ==
    pc = "sched" =>
        /\ (calls > args.num_epochs * args.iter_per_epoch) => result.status = "IndexError"
        /\ (result.status = "IndexError") =>
              Len(schedulers[1].lr_schedule) = args.num_epochs * args.iter_per_epoch

\* C2 (amended): with warmup_epochs <= num_epochs the schedule has exactly
\* num_epochs * iter_per_epoch entries, with warmup_epochs > num_epochs it has
\* warmup_epochs * iter_per_epoch entries; a step() call made after that many
\* successful steps raises IndexError, returns nothing and leaves the index and
\* every parameter group as the last successful step left them, and no call
\* made earlier fails.
C2_ScheduleLength ==
    pc = "sched" =>
        LET s == schedulers[1]
            budget == IF args.warmup_epochs <= args.num_epochs
                      THEN args.num_epochs * args.iter_per_epoch
                      ELSE args.warmup_epochs * args.iter_per_epoch
        IN  /\ Len(s.lr_schedule) = budget
            /\ s.iter <= budget
            /\ (calls <= budget) => (s.iter = calls /\ result.status # "IndexError")
            /\ (calls > budget) =>
                  /\ result.status = "IndexError"
                  /\ result.ret = << >>
                  /\ s.iter = budget
                  /\ \A g \in 1..Len(optimizers[1].param_groups) :
                        optimizers[1].param_groups[g] = AppliedLR(budget)

\* C2 witness: a schedule of four entries (two epochs of two iterations, one of
\* them warmup) was exhausted and the fifth call raised.
C2_Witness ==
    /\ pc = "sched"
    /\ args.warmup_epochs = 1
    /\ args.num_epochs = 2
    /\ args.iter_per_epoch = 2
    /\ schedulers[1].iter = 4
    /\ calls = 5
    /\ result.status = "IndexError"

(***************************************************************************)
(* pretrain: construction of the optimizers and schedulers, and the        *)
(* training loop.                                                          *)
(***************************************************************************)
MaxEncoders == 2
MaxTypeNum  == 1

\* argparse defaults of the learning rates (units of 1e-5) and the batch size.
l_lr == << 2, 100 >>
g_lr == 100
c_lr == 10
bsz  == 512

EncoderKinds == { "TransformerWithMLP", "SimpleMLP", "CombTabTransformer" }

\* lr * args.bsz / 256
scaled_lr(lr) == (lr * bsz) \div 256

\* The scheduler pretrain constructs for optimizer `o` created with rate `lr`.
\* Only the transformer half of a TransformerWithMLP takes flat_lr into account.
pretrain_scheduler(o, lr, a, trns) ==
    LRScheduler(o, a.warmup_epochs,
                IF (trns /\ a.flat_lr) \/ a.cosine_lr THEN 0 ELSE scaled_lr(lr),
                a.epochs, scaled_lr(lr),
                IF a.cosine_lr THEN 0 ELSE scaled_lr(lr),
                a.iter_per_epoch, trns /\ a.flat_lr)

\* What one pass of the construction loop adds for an encoder of kind `kind`
\* when n optimizers and m schedulers exist already: the new optimizers, the
\* schedulers constructed, and the entries appended to lr_schedulers.
encoder_optimization(kind, n, m, a) ==
    IF kind = "TransformerWithMLP"
    THEN [ optimizers    |-> << Optimizer(1, l_lr[1]), Optimizer(1, l_lr[2]) >>,
           schedulers    |-> << pretrain_scheduler(n + 1, l_lr[1], a, TRUE),
                                pretrain_scheduler(n + 2, l_lr[2], a, FALSE) >>,
           lr_schedulers |-> << >> ]
    ELSE IF kind = "SimpleMLP"
    THEN [ optimizers    |-> << Optimizer(1, g_lr) >>,
           schedulers    |-> << pretrain_scheduler(n + 1, g_lr, a, FALSE) >>,
           lr_schedulers |-> << m + 1 >> ]
    ELSE [ optimizers    |-> << Optimizer(1, c_lr) >>,
           schedulers    |-> << pretrain_scheduler(n + 1, c_lr, a, FALSE) >>,
           lr_schedulers |-> << m + 1 >> ]

\* The loop `for encoder in encoders` of the optimization set-up, from encoder i on.
RECURSIVE build_optimization(_, _, _)
build_optimization(i, acc, a) ==
    IF i > Len(a.encoders) THEN acc
    ELSE LET add == encoder_optimization(a.encoders[i], Len(acc.optimizers), Len(acc.schedulers), a)
         IN  build_optimization(i + 1,
                 [ optimizers    |-> acc.optimizers \o add.optimizers,
                   schedulers    |-> acc.schedulers \o add.schedulers,
                   lr_schedulers |-> acc.lr_schedulers \o add.lr_schedulers ], a)

\* Number of minibatches datahandler.by_type(type_bsz, select_size=type_num) yields.
by_type(select_size) == select_size

\* Minibatches of one epoch: chain(train_loader, train_tloader).
epoch_batches(a) == a.iter_per_epoch + by_type(a.type_num)

\* optimizer.step() for every optimizer of the list.
optimizers_step(opts) == [o \in 1..Len(opts) |-> [opts[o] EXCEPT !.steps = @ + 1]]

\* `for lr_scheduler in lr_schedulers: lr_scheduler.step()` from position j of
\* the list on; the first IndexError leaves the loop.
RECURSIVE schedulers_step(_, _, _, _)
schedulers_step(j, list, scheds, opts) ==
    IF j > Len(list) THEN [ status |-> "ok", scheds |-> scheds, opts |-> opts ]
    ELSE LET r == step(scheds[list[j]], opts) IN
         IF r.status # "ok"
         THEN [ status |-> r.status, scheds |-> scheds, opts |-> opts ]
         ELSE schedulers_step(j + 1, list, [scheds EXCEPT ![list[j]] = r.sched], r.opts)

\* The defaults of --val_every, --eval_every and --save_every.
val_every == 1
eval_every == 10
save_every == 10

PretrainArgs ==
    { a \in [ encoders : UNION { [1..n -> EncoderKinds] : n \in 1..MaxEncoders },
              epochs : 1..MaxEpochs, warmup_epochs : 0..MaxWarmup,
              iter_per_epoch : 1..MaxIters, type_num : 0..MaxTypeNum,
              cosine_lr : BOOLEAN, flat_lr : BOOLEAN,
              val_every : { val_every }, eval_every : { eval_every },
              save_every : { save_every } ] : TRUE }

\* Something pretrain did at the end of epoch e, after `calls` iterations.
\* k is the position of the encoder for a weight file, 0 otherwise.
Event(kind, ep, done) == [ kind |-> kind, k |-> 0, e |-> ep, calls |-> done ]

\* The files of one checkpoint: a weight file per (encoder, modality) pair
\* of zip(encoders, args.contrastive), then the configuration snapshot.
checkpoint(ep, done, a) ==
    [k \in 1..Len(a.encoders) |-> [Event("weights", ep, done) EXCEPT !.k = k]] \o << Event("args", ep, done) >>

\* Variant: the checkpoint is written before the evaluations.
RECURSIVE epoch_triggers_save_first(_, _, _, _, _)
epoch_triggers_save_first(stage, ep, done, a, events) ==
    IF stage = 1
    THEN IF a.save_every = 0 THEN [ status |-> "ZeroDivisionError", events |-> events ]
         ELSE epoch_triggers_save_first(2, ep, done, a,
                  IF ep % a.save_every = 0 THEN events \o checkpoint(ep, done, a) ELSE events)
    ELSE IF stage = 2
    THEN IF a.val_every = 0 THEN [ status |-> "ZeroDivisionError", events |-> events ]
         ELSE epoch_triggers_save_first(3, ep, done, a,
                  IF ep % a.val_every = 0 THEN Append(events, Event("validation", ep, done)) ELSE events)
    ELSE IF stage = 3
    THEN IF a.eval_every = 0 THEN [ status |-> "ZeroDivisionError", events |-> events ]
         ELSE epoch_triggers_save_first(4, ep, done, a,
                  IF ep % a.eval_every = 0 THEN Append(events, Event("evaluation", ep, done)) ELSE events)
    ELSE [ status |-> "ok", events |-> events ]

\* The three `if e % args.<x>_every == 0` statements that end an epoch, from
\* statement `stage` on; a cadence of 0 makes the % raise ZeroDivisionError.
RECURSIVE epoch_triggers(_, _, _, _, _)
epoch_triggers(stage, ep, done, a, events) ==
    IF stage = 1
    THEN IF a.val_every = 0 THEN [ status |-> "ZeroDivisionError", events |-> events ]
         ELSE epoch_triggers(2, ep, done, a,
                  IF ep % a.val_every = 0 THEN Append(events, Event("validation", ep, done)) ELSE events)
    ELSE IF stage = 2
    THEN IF a.eval_every = 0 THEN [ status |-> "ZeroDivisionError", events |-> events ]
         ELSE epoch_triggers(3, ep, done, a,
                  IF ep % a.eval_every = 0 THEN Append(events, Event("evaluation", ep, done)) ELSE events)
    ELSE IF stage = 3
    THEN IF a.save_every = 0 THEN [ status |-> "ZeroDivisionError", events |-> events ]
         ELSE epoch_triggers(4, ep, done, a,
                  IF ep % a.save_every = 0 THEN events \o checkpoint(ep, done, a) ELSE events)
    ELSE [ status |-> "ok", events |-> events ]

InitPretrain ==
    \E a \in PretrainArgs :
        LET built == build_optimization(1, [ optimizers |-> << >>, schedulers |-> << >>, lr_schedulers |-> << >> ], a)
        IN  /\ args = a
            /\ optimizers = built.optimizers
            /\ schedulers = built.schedulers
            /\ lr_schedulers = built.lr_schedulers
            /\ e = 1
            /\ it = 0
            /\ pc = "epoch"
            /\ calls = 0
            /\ result = [ status |-> "none", ret |-> << >>, events |-> << >> ]

\* One pass of the minibatch loop: forward, loss, backward, then every
\* optimizer and every listed scheduler is stepped.  An IndexError of a
\* scheduler leaves pretrain.
TrainIteration ==
    /\ pc = "epoch"
    /\ e <= args.epochs
    /\ it < epoch_batches(args)
    /\ LET stepped == optimizers_step(optimizers)
           r == schedulers_step(1, lr_schedulers, schedulers, stepped)
       IN  /\ optimizers' = r.opts
           /\ schedulers' = r.scheds
           /\ result' = [ status |-> r.status, ret |-> << >>, events |-> result.events ]
           /\ pc' = IF r.status = "ok" THEN "epoch" ELSE "raised"
           /\ it' = IF r.status = "ok" THEN it + 1 ELSE it
           /\ calls' = IF r.status = "ok" THEN calls + 1 ELSE calls
    /\ UNCHANGED <<args, lr_schedulers, e>>

\* The minibatches of epoch e are used up: the validation, the expensive
\* evaluation and the checkpoint that are due follow, and the outer loop
\* moves on; a ZeroDivisionError leaves pretrain.
EpochEnd ==
    /\ pc = "epoch"
    /\ e <= args.epochs
    /\ it = epoch_batches(args)
    /\ \E t \in { epoch_triggers(1, e, calls, args, result.events) } :
          /\ result' = [ status |-> t.status, ret |-> << >>, events |-> t.events ]
          /\ pc' = IF t.status = "ok" THEN "epoch" ELSE "raised"
          /\ e' = IF t.status = "ok" THEN e + 1 ELSE e
          /\ it' = IF t.status = "ok" THEN 0 ELSE it
    /\ UNCHANGED <<args, optimizers, schedulers, lr_schedulers, calls>>

\* After the last epoch pretrain writes the embeddings (write_all) and returns.
PretrainReturn ==
    /\ pc = "epoch"
    /\ e > args.epochs
    /\ result' = [result EXCEPT !.events = Append(@, Event("embeddings", args.epochs, calls))]
    /\ pc' = "done"
    /\ UNCHANGED <<args, optimizers, schedulers, lr_schedulers, e, it, calls>>

NextPretrain == TrainIteration \/ EpochEnd \/ PretrainReturn

SpecPretrain == InitPretrain /\ [][NextPretrain]_vars

\* The cadences tried for --val_every, --eval_every and --save_every.
Cadences == { 0, 1, 2 }

\* pretrain of a single MLP encoder with constant learning rate, under every
\* combination of cadences.
InitEpochs ==
    \E ep \in 1..MaxEpochs, ipe \in 1..MaxIters, tn \in 0..MaxTypeNum,
       ve \in Cadences, ee \in Cadences, se \in Cadences, n \in 1..MaxEncoders :
        LET a == [ encoders |-> [k \in 1..n |-> "SimpleMLP"], epochs |-> ep, warmup_epochs |-> 0,
                   iter_per_epoch |-> ipe, type_num |-> tn, cosine_lr |-> FALSE, flat_lr |-> FALSE,
                   val_every |-> ve, eval_every |-> ee, save_every |-> se ]
            built == build_optimization(1, [ optimizers |-> << >>, schedulers |-> << >>, lr_schedulers |-> << >> ], a)
        IN  /\ args = a
            /\ optimizers = built.optimizers
            /\ schedulers = built.schedulers
            /\ lr_schedulers = built.lr_schedulers
            /\ e = 1
            /\ it = 0
            /\ pc = "epoch"
            /\ calls = 0
            /\ result = [ status |-> "none", ret |-> << >>, events |-> << >> ]

SpecEpochs == InitEpochs /\ [][NextPretrain]_vars

(***************************************************************************)
(* Properties of the training loop.                                        *)
(***************************************************************************)

\* C3: after t completed iterations of pretrain every optimizer has been
\* stepped t times, every optimizer has a scheduler in lr_schedulers bound to
\* it, and every scheduler that was constructed has index t.
C3_EveryPairStepped ==
    (pc \in { "epoch", "done" } /\ calls >= 1) =>
        /\ \A o \in 1..Len(optimizers) :
              /\ optimizers[o].steps = calls
              /\ \E j \in 1..Len(lr_schedulers) : schedulers[lr_schedulers[j]].optimizer = o
        /\ \A k \in 1..Len(schedulers) : schedulers[k].iter = calls

\* C4: pretrain never steps a scheduler more than epochs * iter_per_epoch
\* times and no scheduler step raises during training.
C4_WithinBudget ==
    pc \in { "epoch", "done", "raised" } =>
        /\ pc # "raised"
        /\ \A k \in 1..Len(schedulers) :
              schedulers[k].iter <= args.epochs * args.iter_per_epoch

(***************************************************************************)
(* Contrastive loss (_uni_info_nce) and retrieval accuracy (clip_acc): the *)
(* argument checks, the deduplication of z2, the similarity shapes and the  *)
(* target labels.  An embedding batch is a sequence of rows, a row a tuple  *)
(* of integers.  The optional `targets` is << >> for None and << list >>    *)
(* for an explicit list.  A status names the exception that ended the call; *)
(* "TorchError" stands for one raised inside torch (shape mismatch, out of  *)
(* range class index, empty torch.cat), whose class depends on the release.*)
(***************************************************************************)
MaxRows == 3

Vals == { 0, 1 }
Dims == { 1, 2 }
Distances == { "cosine", "euclidean" }

Rows(d) == [1..d -> Vals]
Batches(d) == UNION { [1..n -> Rows(d)] : n \in 1..MaxRows }

\* z.size()[1]
feature_dim(z) == Len(z[1])

\* Lexicographic order of two rows of equal length, the order torch.unique sorts by.
row_less(a, b) ==
    \E k \in 1..Len(a) : a[k] < b[k] /\ \A j \in 1..(k - 1) : a[j] = b[j]

\* torch.unique(z, dim=0): the distinct rows of z in sorted order.
unique(z) ==
    LET S == { z[i] : i \in 1..Len(z) }
    IN  CHOOSE u \in [1..Cardinality(S) -> S] :
            \A i \in 1..Cardinality(S), j \in 1..Cardinality(S) : i < j => row_less(u[i], u[j])

\* Variant: only the first row equal to the representative is given its index.
map_idx_assign_first_only(i, z2, z2u, map_idx) ==
    [m \in 1..Len(z2) |->
        IF z2[m] = z2u[i] /\ \A j \in 1..(m - 1) : z2[j] # z2u[i] THEN i - 1 ELSE map_idx[m]]

\* One pass of `for i in range(len(z2_))`: every row of z2 equal to the i-th
\* representative gets map_idx[m] = i (0-based: i - 1 here).
map_idx_assign(i, z2, z2u, map_idx) ==
    [m \in 1..Len(z2) |-> IF z2[m] = z2u[i] THEN i - 1 ELSE map_idx[m]]

RECURSIVE map_idx_loop(_, _, _, _)
map_idx_loop(i, z2, z2u, map_idx) ==
    IF i > Len(z2u) THEN map_idx
    ELSE map_idx_loop(i + 1, z2, z2u, map_idx_assign(i, z2, z2u, map_idx))

\* The remove_duplicates block: z2_ and map_idx, which starts as [-1000] * len(z2).
remove_duplicates_block(z2) ==
    LET z2u == unique(z2)
    IN  [ z2u |-> z2u, map_idx |-> map_idx_loop(1, z2, z2u, [m \in 1..Len(z2) |-> 0 - 1000]) ]

\* euclidean_dist(z1, z2) reshapes diag(z2 z2^T).repeat(n) to (n, n), n the
\* number of rows of z1: that exists only when z2 has n rows as well.
euclidean_dist_shape_ok(z1, z2) == Len(z2) * Len(z1) = Len(z1) * Len(z1)

\* Whether the similarity matrix of z1 against z2 can be formed.
similarity_ok(z1, z2, distance) ==
    /\ feature_dim(z1) = feature_dim(z2)
    /\ distance = "euclidean" => euclidean_dist_shape_ok(z1, z2)

\* torch.arange(0, n).tolist()
arange(n) == [i \in 1..n |-> i - 1]

\* Variant: the second half of the labels is not shifted back.
both_sides_labels_no_shift_back(n) ==
    [i \in 1..(2 * n) |-> IF i <= n THEN (i - 1) + n ELSE i - 1]

\* labels = arange(0, 2n); labels[:n] += n; labels[n:] -= n
both_sides_labels(n) ==
    [i \in 1..(2 * n) |-> IF i <= n THEN (i - 1) + n ELSE (i - 1) - n]

\* [map_idx[i] for i in labels] raises IndexError when a label is no index of map_idx.
remap_ok(labels, map_idx) == \A i \in 1..Len(labels) : labels[i] < Len(map_idx)

remap(labels, map_idx) == [i \in 1..Len(labels) |-> map_idx[labels[i] + 1]]

\* torch.nn.functional.cross_entropy(logits, labels) for logits of shape
\* (rows, cols): the batch sizes must agree and every label must be a column.
cross_entropy_status(rows, cols, labels) ==
    IF Len(labels) # rows THEN "TorchError"
    ELSE IF \E i \in 1..Len(labels) : labels[i] < 0 \/ labels[i] >= cols THEN "TorchError"
    ELSE "ok"

\* What a call left behind: how far it got and what it produced.
Outcome(fn, status, deduped, z2u, map_idx, pool, cols, labels, similarity, value) ==
    [ fn |-> fn, status |-> status, deduped |-> deduped, z2u |-> z2u, map_idx |-> map_idx,
      pool |-> pool, cols |-> cols, labels |-> labels, similarity |-> similarity, value |-> value ]

\* Variant: the conflicting-arguments check is missing.
uni_precheck_no_conflict_check(z1, distance, remove_duplicates, targets) ==
    IF feature_dim(z1) <= 1 /\ distance = "cosine" THEN "UserWarning" ELSE "ok"

\* The two argument checks that open _uni_info_nce.
uni_precheck(z1, distance, remove_duplicates, targets) ==
    IF feature_dim(z1) <= 1 /\ distance = "cosine" THEN "UserWarning"
    ELSE IF remove_duplicates /\ targets # << >> THEN "ValueError"
    ELSE "ok"

\* _uni_info_nce up to the cross-entropy call.
uni_info_nce(z1, z2, distance, both_sides, remove_duplicates, targets) ==
    LET fn  == "_uni_info_nce"
        pre == uni_precheck(z1, distance, remove_duplicates, targets)
    IN
    IF pre # "ok"
    THEN Outcome(fn, pre, FALSE, << >>, << >>, << >>, 0, << >>, FALSE, FALSE)
    ELSE
    LET dd  == IF remove_duplicates THEN remove_duplicates_block(z2)
               ELSE [ z2u |-> << >>, map_idx |-> << >> ]
        z2a == IF remove_duplicates THEN dd.z2u ELSE z2
    IN
    IF both_sides /\ feature_dim(z1) # feature_dim(z2a)
    THEN Outcome(fn, "TorchError", remove_duplicates, dd.z2u, dd.map_idx, << >>, 0, << >>, FALSE, FALSE)
    ELSE
    LET p1 == IF both_sides THEN z1 \o z2a ELSE z1
        p2 == IF both_sides THEN z1 \o z2a ELSE z2a
    IN
    IF ~similarity_ok(p1, p2, distance)
    THEN Outcome(fn, "TorchError", remove_duplicates, dd.z2u, dd.map_idx, p1, Len(p2), << >>, FALSE, FALSE)
    ELSE
    LET n  == IF both_sides THEN Len(p1) \div 2 ELSE Len(p1)
        l0 == IF targets # << >> THEN targets[1]
              ELSE IF both_sides THEN both_sides_labels(n)
              ELSE arange(n)
    IN
    IF remove_duplicates /\ ~remap_ok(l0, dd.map_idx)
    THEN Outcome(fn, "IndexError", remove_duplicates, dd.z2u, dd.map_idx, p1, Len(p2), << >>, TRUE, FALSE)
    ELSE
    LET labels == IF remove_duplicates THEN remap(l0, dd.map_idx) ELSE l0
        ce     == cross_entropy_status(Len(p1), Len(p2), labels)
    IN  Outcome(fn, ce, remove_duplicates, dd.z2u, dd.map_idx, p1, Len(p2), labels, TRUE, ce = "ok")

\* Variant: clip_acc without its argument check.
clip_precheck_none(remove_duplicates, targets) == "ok"

\* The argument check that opens clip_acc.
clip_precheck(remove_duplicates, targets) ==
    IF remove_duplicates /\ targets # << >> THEN "ValueError" ELSE "ok"

\* neighbors - targets: the argmax vector (one entry per row of z1) and the
\* target tensor must broadcast.
subtract_ok(n, t) == Len(t) = n \/ Len(t) = 1 \/ n = 1

\* clip_acc in plain mode, up to the comparison of the best matches with the
\* target tensor.
clip_acc_targets(z1, z2, distance, remove_duplicates, targets) ==
    LET fn  == "clip_acc"
        pre == clip_precheck(remove_duplicates, targets)
    IN
    IF pre # "ok"
    THEN Outcome(fn, pre, FALSE, << >>, << >>, << >>, 0, << >>, FALSE, FALSE)
    ELSE
    LET dd  == IF remove_duplicates THEN remove_duplicates_block(z2)
               ELSE [ z2u |-> << >>, map_idx |-> << >> ]
        z2a == IF remove_duplicates THEN dd.z2u ELSE z2
    IN
    IF ~similarity_ok(z1, z2a, distance)
    THEN Outcome(fn, "TorchError", remove_duplicates, dd.z2u, dd.map_idx, z1, Len(z2a), << >>, FALSE, FALSE)
    ELSE
    LET t0 == IF targets # << >> THEN targets[1] ELSE arange(Len(z1))
    IN
    IF remove_duplicates /\ ~remap_ok(t0, dd.map_idx)
    THEN Outcome(fn, "IndexError", remove_duplicates, dd.z2u, dd.map_idx, z1, Len(z2a), << >>, TRUE, FALSE)
    ELSE
    LET t == IF remove_duplicates THEN remap(t0, dd.map_idx) ELSE t0
    IN  IF ~subtract_ok(Len(z1), t)
        THEN Outcome(fn, "TorchError", remove_duplicates, dd.z2u, dd.map_idx, z1, Len(z2a), t, TRUE, FALSE)
        ELSE Outcome(fn, "ok", remove_duplicates, dd.z2u, dd.map_idx, z1, Len(z2a), t, TRUE, TRUE)

\* z1 drawn against z2: row i of z1 is row i of z2, cyclically, over n rows.
Paired(z2, n) == [i \in 1..n |-> z2[((i - 1) % Len(z2)) + 1]]

\* The explicit target lists tried: all rows matched to column 0, for a list
\* as long as z1 and for one as long as the combined pool.
TargetChoices(z1, z2) ==
    { << >>, << [i \in 1..Len(z1) |-> 0] >>, << [i \in 1..(Len(z1) + Len(z2)) |-> 0] >> }

InitLoss ==
    \E d \in Dims :
    \E z2 \in Batches(d), n \in 1..MaxRows, dist \in Distances,
       bs \in BOOLEAN, rd \in BOOLEAN :
    \E t \in TargetChoices(Paired(z2, n), z2) :
        /\ args = [ z1 |-> Paired(z2, n), z2 |-> z2, distance |-> dist, both_sides |-> bs,
                    remove_duplicates |-> rd, targets |-> t ]
        /\ optimizers = << >>
        /\ schedulers = << >>
        /\ lr_schedulers = << >>
        /\ e = 0
        /\ it = 0
        /\ pc = "call"
        /\ calls = 0
        /\ result = [ fn |-> "none", status |-> "none" ]

CallUniInfoNCE ==
    /\ pc = "call"
    /\ result' = uni_info_nce(args.z1, args.z2, args.distance, args.both_sides,
                              args.remove_duplicates, args.targets)
    /\ pc' = "returned"
    /\ calls' = calls + 1
    /\ UNCHANGED <<args, optimizers, schedulers, lr_schedulers, e, it>>

CallClipAcc ==
    /\ pc = "call"
    /\ result' = clip_acc_targets(args.z1, args.z2, args.distance,
                                  args.remove_duplicates, args.targets)
    /\ pc' = "returned"
    /\ calls' = calls + 1
    /\ UNCHANGED <<args, optimizers, schedulers, lr_schedulers, e, it>>

NextLoss == CallUniInfoNCE \/ CallClipAcc

SpecLoss == InitLoss /\ [][NextLoss]_vars

(***************************************************************************)
(* Properties of the labels, the deduplication and the argument checks.    *)
(***************************************************************************)

\* C5 (as stated): every call of _uni_info_nce with both_sides=true that is
\* accepted works on the pool [z1; z2] of 2n rows, n the number of rows of
\* z1, and labels pool row i with i + n for i < n and with i - n for i >= n.
C5_Original ==
    (pc = "returned" /\ result.fn = "_uni_info_nce" /\ result.status = "ok" /\ args.both_sides) =>
        LET n == Len(args.z1)
        IN  /\ Len(result.pool) = 2 * n
            /\ Len(result.labels) = 2 * n
            /\ \A i \in 0..(2 * n - 1) :
                  result.labels[i + 1] = IF i < n THEN i + n ELSE i - n

\* C5 (amended): for z1 and z2 with the same number n of rows and no explicit
\* targets, an accepted call with both_sides=true works on the pool [z1; z2]
\* of 2n rows, labels pool row i with i + n for i < n and with i - n for
\* i >= n, and the label map is an involution without fixed point that pairs
\* row i of z1 with row i of z2.
C5_BothSidesLabels ==
    (/\ pc = "returned" /\ result.fn = "_uni_info_nce" /\ result.status = "ok"
     /\ args.both_sides /\ Len(args.z1) = Len(args.z2) /\ args.targets = << >>) =>
        LET n == Len(args.z1)
            l == result.labels
        IN  /\ result.pool = args.z1 \o args.z2
            /\ result.cols = 2 * n
            /\ Len(l) = 2 * n
            /\ \A i \in 0..(2 * n - 1) : l[i + 1] = IF i < n THEN i + n ELSE i - n
            /\ \A i \in 0..(2 * n - 1) : l[i + 1] # i /\ l[l[i + 1] + 1] = i
            /\ \A i \in 0..(n - 1) : result.pool[l[i + 1] + 1] = args.z2[i + 1]
            /\ \A i \in n..(2 * n - 1) : result.pool[l[i + 1] + 1] = args.z1[i - n + 1]

\* C5 witness: an accepted both-sided call on two batches of three rows each.
C5_Witness ==
    /\ pc = "returned" /\ result.fn = "_uni_info_nce" /\ result.status = "ok"
    /\ args.both_sides /\ args.targets = << >>
    /\ Len(args.z1) = 3 /\ Len(args.z2) = 3
    /\ result.labels = << 3, 4, 5, 0, 1, 2 >>

\* C6: wherever remove_duplicates ran, z2_ holds each distinct row of z2 once
\* and map_idx sends every row index i of z2 to the index of the row of z2_
\* equal to z2[i]: equal rows share a label, distinct rows do not, no entry
\* keeps -1000; and where the targets were remapped (clip_acc, one-directional
\* _uni_info_nce) the label of row i is map_idx[i], an index into z2_.
C6_Dedup ==
    (pc = "returned" /\ args.remove_duplicates /\ result.deduped) =>
        LET z2  == args.z2
            z2u == result.z2u
            mp  == result.map_idx
        IN  /\ Len(mp) = Len(z2)
            /\ \A a \in 1..Len(z2u), b \in 1..Len(z2u) : z2u[a] = z2u[b] => a = b
            /\ \A a \in 1..Len(z2u) : \E i \in 1..Len(z2) : z2[i] = z2u[a]
            /\ \A i \in 1..Len(z2) :
                  /\ mp[i] \in 0..(Len(z2u) - 1)
                  /\ z2u[mp[i] + 1] = z2[i]
            /\ \A i \in 1..Len(z2), j \in 1..Len(z2) : (z2[i] = z2[j]) <=> (mp[i] = mp[j])
            /\ (result.status = "ok" /\ ~(result.fn = "_uni_info_nce" /\ args.both_sides)) =>
                  /\ Len(result.labels) = Len(args.z1)
                  /\ \A i \in 1..Len(result.labels) :
                        /\ result.labels[i] = mp[i]
                        /\ result.labels[i] \in 0..(result.cols - 1)
                        /\ z2u[result.labels[i] + 1] = z2[i]

\* C6 witness: clip_acc collapsed a z2 of three rows, the first and the last
\* identical and sorting after the middle one, and both got the same label.
C6_Witness ==
    /\ pc = "returned" /\ result.fn = "clip_acc" /\ result.status = "ok"
    /\ args.remove_duplicates
    /\ Len(args.z2) = 3 /\ Len(args.z1) = 3
    /\ args.z2[1] = args.z2[3] /\ args.z2[1] # args.z2[2]
    /\ Len(result.z2u) = 2
    /\ result.labels = << 1, 0, 1 >>

\* C7 (as stated): with remove_duplicates=true and explicit targets both
\* functions raise ValueError before deduplicating, before forming any
\* similarity and without returning a value.
C7_Original ==
    (pc = "returned" /\ args.remove_duplicates /\ args.targets # << >>) =>
        /\ result.status = "ValueError"
        /\ ~result.deduped /\ ~result.similarity /\ ~result.value

\* C7 (amended): with remove_duplicates=true and explicit targets both
\* functions raise before deduplicating, before forming any similarity and
\* without returning a value; the exception is ValueError, except that
\* _uni_info_nce called with cosine distance on embeddings of at most one
\* feature dimension raises UserWarning from its earlier dimension check.
C7_ConflictRejected ==
    (pc = "returned" /\ args.remove_duplicates /\ args.targets # << >>) =>
        /\ result.status =
              IF /\ result.fn = "_uni_info_nce"
                 /\ feature_dim(args.z1) <= 1
                 /\ args.distance = "cosine"
              THEN "UserWarning" ELSE "ValueError"
        /\ ~result.deduped /\ ~result.similarity /\ ~result.value
        /\ result.z2u = << >> /\ result.map_idx = << >> /\ result.labels = << >>

\* C7 witness: clip_acc rejected the conflicting arguments on a z2 that holds
\* a duplicate row.
C7_Witness ==
    /\ pc = "returned" /\ result.fn = "clip_acc" /\ result.status = "ValueError"
    /\ args.remove_duplicates /\ args.targets # << >>
    /\ Len(args.z2) = 2 /\ args.z2[1] = args.z2[2]

(***************************************************************************)
(* info_nce: the wrapper over several embedding batches.  A loss term is   *)
(* kept symbolically: the pair of batch indices (0-based) it was computed  *)
(* on, the both_sides flag and whether lam/perm_idx were passed to          *)
(* _uni_info_nce, and the weight it was multiplied by (widx is the index of *)
(* lr_weight used, -1 when the term is not weighted).                      *)
(***************************************************************************)
MaxK == 4

\* The lr_weight lists tried; the first is the default of the parameter.
default_lr_weight == << 1, 1 >>
WeightChoices == { default_lr_weight, << 2, 3 >>, << 2, 3, 5, 7, 11, 13, 17, 19 >> }

\* The batches tried: two of two rows and two features, one with one feature.
BatchChoices ==
    { << <<0, 1>>, <<1, 0>> >>, << <<1, 1>>, <<0, 1>> >>, << <<1>>, <<0>> >> }

Term(a, b, both_sides, lam, widx) ==
    [ a |-> a, b |-> b, both_sides |-> both_sides, lam |-> lam, widx |-> widx ]

\* Variant: the `continue` for it1 == it2 is missing.
all_pairs_with_self(K) ==
    [t \in 1..(K * K) |-> << (t - 1) \div K, (t - 1) % K >>]

\* The (it1, it2) for which the nested loops of the default mode do not
\* `continue`, in the order the loops visit them.
all_pairs(K) ==
    IF K < 2 THEN << >>
    ELSE [t \in 1..(K * (K - 1)) |->
            LET i == (t - 1) \div (K - 1)
                r == (t - 1) % (K - 1)
            IN  << i, IF r < i THEN r ELSE r + 1 >>]

\* The calls of _uni_info_nce the selected branch makes, in order.
planned_terms(K, both_sides, lam, twoway, fourway) ==
    IF ~twoway /\ ~fourway
    THEN LET ps == all_pairs(K)
         IN  [t \in 1..Len(ps) |-> Term(ps[t][1], ps[t][2], both_sides, FALSE, 0 - 1)]
    ELSE IF twoway
    THEN [t \in 1..(IF K >= 1 THEN K - 1 ELSE 0) |-> Term(0, t, FALSE, lam, t - 1)]
    ELSE [t \in 1..(IF K >= 1 THEN 2 * (K - 1) ELSE 0) |->
            IF t % 2 = 1
            THEN Term(0, (t + 1) \div 2, FALSE, lam, ((t + 1) \div 2) - 1)
            ELSE Term(t \div 2, 0, FALSE, lam, (t \div 2) - 1)]

\* How the evaluation of one planned term ends: the exception of
\* _uni_info_nce, the IndexError of lr_weight[it], or "ok" (perm_idx, when
\* lam is passed, is taken to be a valid label tensor).
term_status(z, distance, lr_weight, t) ==
    LET u == uni_info_nce(z[t.a + 1], z[t.b + 1], distance, t.both_sides, FALSE, << >>)
    IN  IF u.status # "ok" THEN u.status
        ELSE IF t.widx >= Len(lr_weight) THEN "IndexError"
        ELSE "ok"

\* The weight a term is multiplied by.
term_weight(lr_weight, t) == IF t.widx < 0 THEN 1 ELSE lr_weight[t.widx + 1]

\* info_nce: the terms are evaluated in order and the first exception leaves
\* the function; torch.cat of an empty list raises; otherwise the value is
\* the sum of the weighted terms divided by their number.
info_nce(z, distance, both_sides, lam, twoway, fourway, lr_weight) ==
    LET plan == planned_terms(Len(z), both_sides, lam, twoway, fourway)
        bad  == { t \in 1..Len(plan) : term_status(z, distance, lr_weight, plan[t]) # "ok" }
    IN  IF bad # { }
        THEN LET first == CHOOSE t \in bad : \A x \in bad : t <= x
             IN  [ status |-> term_status(z, distance, lr_weight, plan[first]),
                   terms |-> << >>, weights |-> << >>, divisor |-> 0 ]
        ELSE IF Len(plan) = 0
        THEN [ status |-> "TorchError", terms |-> << >>, weights |-> << >>, divisor |-> 0 ]
        ELSE [ status |-> "ok", terms |-> plan,
               weights |-> [t \in 1..Len(plan) |-> term_weight(lr_weight, plan[t])],
               divisor |-> Len(plan) ]

InitInfo ==
    \E K \in 0..MaxK :
    \E z \in [1..K -> BatchChoices], dist \in Distances, bs \in BOOLEAN, lam \in BOOLEAN,
       tw \in BOOLEAN, fw \in BOOLEAN, w \in WeightChoices :
        /\ args = [ z |-> z, distance |-> dist, both_sides |-> bs, lam |-> lam,
                    twoway |-> tw, fourway |-> fw, lr_weight |-> w ]
        /\ optimizers = << >>
        /\ schedulers = << >>
        /\ lr_schedulers = << >>
        /\ e = 0
        /\ it = 0
        /\ pc = "call"
        /\ calls = 0
        /\ result = [ status |-> "none" ]

CallInfoNCE ==
    /\ pc = "call"
    /\ result' = info_nce(args.z, args.distance, args.both_sides, args.lam,
                          args.twoway, args.fourway, args.lr_weight)
    /\ pc' = "returned"
    /\ calls' = calls + 1
    /\ UNCHANGED <<args, optimizers, schedulers, lr_schedulers, e, it>>

NextInfo == CallInfoNCE

SpecInfo == InitInfo /\ [][NextInfo]_vars

(***************************************************************************)
(* Properties of info_nce.                                                 *)
(***************************************************************************)

\* The two-argument loss of batch i against batch j can be computed.
PairComputable(i, j, both_sides) ==
    uni_info_nce(args.z[i + 1], args.z[j + 1], args.distance, both_sides, FALSE, << >>).status = "ok"

\* The terms of the result computed on the ordered pair (i, j).
TermsOn(i, j) == { t \in 1..Len(result.terms) : result.terms[t].a = i /\ result.terms[t].b = j }

\* C8 (as stated): in default mode a returned loss is the unweighted mean of
\* K(K-1) terms, one for every ordered pair (i, j) with i # j and none for
\* i = j, every one of them computed with both_sides=true whatever the caller
\* passed.
C8_Original ==
    (pc = "returned" /\ ~args.twoway /\ ~args.fourway /\ result.status = "ok") =>
        LET K == Len(args.z)
        IN  /\ Len(result.terms) = K * (K - 1)
            /\ result.divisor = K * (K - 1)
            /\ \A i \in 0..(K - 1), j \in 0..(K - 1) :
                  Cardinality(TermsOn(i, j)) = IF i = j THEN 0 ELSE 1
            /\ \A t \in 1..Len(result.terms) :
                  result.terms[t].both_sides = TRUE /\ result.weights[t] = 1

\* C8 (amended): in default mode on K >= 2 batches whose pairwise losses can
\* be computed, info_nce returns the unweighted mean of K(K-1) terms, one for
\* every ordered pair (i, j) with i # j and none for i = j, every one of them
\* computed with the both_sides value the caller passed (true by default) and
\* without lam/perm_idx; with fewer than two batches there is no term and the
\* call raises.
C8_DefaultMode ==
    (pc = "returned" /\ ~args.twoway /\ ~args.fourway) =>
        LET K == Len(args.z)
        IN  /\ (result.status = "ok") =>
                  /\ K >= 2
                  /\ Len(result.terms) = K * (K - 1)
                  /\ result.divisor = K * (K - 1)
                  /\ \A i \in 0..(K - 1), j \in 0..(K - 1) :
                        Cardinality(TermsOn(i, j)) = IF i = j THEN 0 ELSE 1
                  /\ \A t \in 1..Len(result.terms) :
                        /\ result.terms[t].both_sides = args.both_sides
                        /\ result.terms[t].lam = FALSE
                        /\ result.terms[t].widx = 0 - 1
                        /\ result.weights[t] = 1
            /\ (K >= 2 /\ \A i \in 0..(K - 1), j \in 0..(K - 1) :
                              i # j => PairComputable(i, j, args.both_sides))
                  => result.status = "ok"
            /\ (K < 2) => result.status = "TorchError"

\* C8 witness: default mode on three batches, called with both_sides=false,
\* returned six one-directional terms.
C8_Witness ==
    /\ pc = "returned" /\ ~args.twoway /\ ~args.fourway /\ result.status = "ok"
    /\ Len(args.z) = 3 /\ ~args.both_sides
    /\ Len(result.terms) = 6
    /\ result.terms[4].a = 1 /\ result.terms[4].b = 2 /\ ~result.terms[4].both_sides

\* C9: with twoway=true on K >= 2 batches whose losses against batch 0 can be
\* computed, and lr_weight either left at its default or holding a weight per
\* pair, info_nce returns the mean of K-1 terms, term i being the
\* one-directional loss of batch 0 against batch i times lr_weight[i-1].
C9_TwoWay ==
    (/\ pc = "returned" /\ args.twoway /\ Len(args.z) >= 2
     /\ \A i \in 1..(Len(args.z) - 1) : PairComputable(0, i, FALSE)
     /\ (args.lr_weight = default_lr_weight \/ Len(args.lr_weight) >= Len(args.z) - 1)) =>
        LET K == Len(args.z)
        IN  /\ result.status = "ok"
            /\ Len(result.terms) = K - 1
            /\ result.divisor = K - 1
            /\ \A i \in 1..(K - 1) :
                  /\ result.terms[i].a = 0 /\ result.terms[i].b = i
                  /\ result.terms[i].both_sides = FALSE
                  /\ result.weights[i] = args.lr_weight[i]

\* C10: with fourway=true (twoway=false) on K >= 2 batches whose
\* one-directional losses can be computed and a weight list long enough to
\* give every term a weight of its own, info_nce returns the mean of 2(K-1)
\* terms, 0->i and i->0 for every i, each with both_sides=false, and no two
\* terms are weighted by the same entry of lr_weight.
C10_FourWay ==
    (/\ pc = "returned" /\ args.fourway /\ ~args.twoway /\ Len(args.z) >= 2
     /\ \A i \in 1..(Len(args.z) - 1) : PairComputable(0, i, FALSE) /\ PairComputable(i, 0, FALSE)
     /\ Len(args.lr_weight) >= 2 * (Len(args.z) - 1)) =>
        LET K == Len(args.z)
        IN  /\ result.status = "ok"
            /\ Len(result.terms) = 2 * (K - 1)
            /\ result.divisor = 2 * (K - 1)
            /\ \A i \in 1..(K - 1) :
                  /\ result.terms[2 * i - 1].a = 0 /\ result.terms[2 * i - 1].b = i
                  /\ result.terms[2 * i].a = i /\ result.terms[2 * i].b = 0
            /\ \A t \in 1..Len(result.terms) :
                  /\ result.terms[t].both_sides = FALSE
                  /\ result.terms[t].widx \in 0..(Len(args.lr_weight) - 1)
            /\ \A t \in 1..Len(result.terms), u \in 1..Len(result.terms) :
                  t # u => result.terms[t].widx # result.terms[u].widx

\* C11: a call of info_nce with twoway=true and fourway=true together never
\* returns a loss: it raises, and no loss term has been computed.
C11_ExclusiveModes ==
    (pc = "returned" /\ args.twoway /\ args.fourway) =>
        /\ result.status # "ok"
        /\ result.terms = << >>

(***************************************************************************)
(* The similarity values: euclidean_dist and the cosine similarity, and    *)
(* clip_acc in full (plain and confusion-matrix mode).  Embeddings have    *)
(* integer coordinates, so the euclidean values are exact; a cosine        *)
(* similarity is kept as the pair (x, p) that stands for x / sqrt(p).      *)
(***************************************************************************)

\* tensor.tolist(): the entries as a plain list.
tolist(x) == x \o << >>

RECURSIVE dot_from(_, _, _)
dot_from(a, b, k) == IF k > Len(a) THEN 0 ELSE a[k] * b[k] + dot_from(a, b, k + 1)

\* The inner product of two rows, an entry of z1 @ z2.T.
dot(a, b) == dot_from(a, b, 1)

\* torch.diagonal(z @ z.T)
diagonal_gram(z) == [i \in 1..Len(z) |-> dot(z[i], z[i])]

\* v.repeat(n): n copies of the vector v one after the other.
repeat(v, n) == [t \in 1..(Len(v) * n) |-> v[((t - 1) % Len(v)) + 1]]

\* flat.reshape((n, n)), defined when flat has n * n entries.
reshape(flat, n) == [i \in 1..n |-> [j \in 1..n |-> flat[(i - 1) * n + j]]]

\* Variant: the squared norms are added instead of subtracted.
euclidean_entry_plus(g, a, b) == 2 * g + a + b

\* One entry of 2 * z1 @ z2.T - A.T - B.
euclidean_entry(g, a, b) == 2 * g - a - b

\* euclidean_dist(z1, z2): both diagonals are repeated n times and reshaped to
\* (n, n), n the number of rows of z1.
euclidean_dist(z1, z2) ==
    LET n == Len(z1)
        a == repeat(diagonal_gram(z1), n)
        b == repeat(diagonal_gram(z2), n)
    IN  IF feature_dim(z1) # feature_dim(z2) \/ Len(b) # n * n
        THEN [ status |-> "TorchError", value |-> << >> ]
        ELSE [ status |-> "ok",
               value  |-> [i \in 1..n |-> [j \in 1..Len(z2) |->
                             euclidean_entry(dot(z1[i], z2[j]), reshape(a, n)[j][i], reshape(b, n)[i][j])]] ]

\* normalize(z1, dim=1) @ normalize(z2, dim=1).T, entry by entry: the value
\* dot(a, b) / (|a| |b|) is kept as << dot(a, b), |a|^2 |b|^2 >>; a row of
\* norm zero is left zero by normalize, which gives the value 0.
cosine_entry(a, b) ==
    IF dot(a, a) = 0 \/ dot(b, b) = 0 THEN << 0, 1 >>
    ELSE << dot(a, b), dot(a, a) * dot(b, b) >>

\* u[1] / sqrt(u[2]) < v[1] / sqrt(v[2])
cos_less(u, v) ==
    IF u[1] < 0 /\ v[1] >= 0 THEN TRUE
    ELSE IF u[1] >= 0 /\ v[1] < 0 THEN FALSE
    ELSE IF u[1] >= 0 THEN u[1] * u[1] * v[2] < v[1] * v[1] * u[2]
    ELSE u[1] * u[1] * v[2] > v[1] * v[1] * u[2]

\* The order of two similarity values of the given distance mode.
sim_less(distance, u, v) == IF distance = "cosine" THEN cos_less(u, v) ELSE u < v

\* The matrix `dists` of clip_acc (`logits` of _uni_info_nce before the
\* temperature): matmul needs equal feature dimensions.
similarity(z1, z2, distance) ==
    IF distance = "cosine"
    THEN IF feature_dim(z1) # feature_dim(z2)
         THEN [ status |-> "TorchError", value |-> << >> ]
         ELSE [ status |-> "ok",
                value  |-> [i \in 1..Len(z1) |-> [j \in 1..Len(z2) |-> cosine_entry(z1[i], z2[j])]] ]
    ELSE euclidean_dist(z1, z2)

\* Variant: the first smallest entry of the row is taken.
argmax_smallest(row, distance) ==
    (CHOOSE c \in 1..Len(row) :
        /\ \A k \in 1..Len(row) : ~sim_less(distance, row[k], row[c])
        /\ \A k \in 1..(c - 1) : sim_less(distance, row[c], row[k])) - 1

\* torch.argmax over one row: the 0-based column of the largest entry, and
\* of the first of them where several entries are the largest.
argmax(row, distance) ==
    (CHOOSE c \in 1..Len(row) :
        /\ \A k \in 1..Len(row) : ~sim_less(distance, row[c], row[k])
        /\ \A k \in 1..(c - 1) : sim_less(distance, row[k], row[c])) - 1

\* torch.argmax(dists, dim=1)
argmax_rows(dists, distance) == tolist([i \in 1..Len(dists) |-> argmax(dists[i], distance)])

\* What a call of clip_acc left behind.  An accuracy is the pair
\* << correct, n >> that stands for correct / n; a per-class accuracy is a
\* record whose field nan marks float('nan').
AccOutcome(status, neighbors, targets, acc, class_accs, class_sizes, cm) ==
    [ fn |-> "clip_acc", status |-> status, neighbors |-> neighbors, targets |-> targets,
      acc |-> acc, class_accs |-> class_accs, class_sizes |-> class_sizes, cm |-> cm ]

\* An AccOutcome of a call that raised.
AccRaised(status) == AccOutcome(status, << >>, << >>, << >>, << >>, << >>, << >>)

\* z2 as the similarity sees it: z2_ when remove_duplicates is set.
clip_z2(z2, remove_duplicates) == IF remove_duplicates THEN unique(z2) ELSE z2

\* numel(where(neighbors - targets == 0)): the difference broadcasts a
\* one-element tensor against the other.
plain_correct(nb, t) ==
    LET k == IF Len(nb) >= Len(t) THEN Len(nb) ELSE Len(t)
    IN  Cardinality({ i \in 1..k : nb[IF Len(nb) = 1 THEN 1 ELSE i] = t[IF Len(t) = 1 THEN 1 ELSE i] })

\* int(max(labels)) + 1 when label_size is left at -1.
effective_label_size(labels, label_size) ==
    IF label_size # 0 - 1 THEN label_size
    ELSE (CHOOSE x \in { labels[r] : r \in 1..Len(labels) } :
              \A r \in 1..Len(labels) : labels[r] <= x) + 1

\* pairs = [[labels[neighbor], labels[target]] for every row]
label_pairs(neighbors, t, labels) ==
    tolist([r \in 1..Len(neighbors) |-> << labels[neighbors[r] + 1], labels[t[r] + 1] >>])

\* Variant: the count is indexed by (true class, matched class).
confusion_matrix_transposed(pairs, ls) ==
    [i \in 1..ls |-> [j \in 1..ls |->
        Cardinality({ r \in 1..Len(pairs) : pairs[r][2] = i - 1 /\ pairs[r][1] = j - 1 })]]

\* cm[pair[0], pair[1]] += 1 for every pair; cm[i + 1][j + 1] here is
\* cm[i, j] of the code.
confusion_matrix(pairs, ls) ==
    [i \in 1..ls |-> [j \in 1..ls |->
        Cardinality({ r \in 1..Len(pairs) : pairs[r][1] = i - 1 /\ pairs[r][2] = j - 1 })]]

\* The rows with label i, in order: the mask labels == i.
class_rows(labels, i) ==
    SelectSeq([r \in 1..Len(labels) |-> r], LAMBDA r : labels[r] = i)

\* torch.numel(torch.where(labels == i)[0])
class_size(labels, i) == Len(class_rows(labels, i))

\* dists[labels == i, :][:, labels == i], R the rows with label i.
dists_mini(dists, R) == tolist([a \in 1..Len(R) |-> tolist([b \in 1..Len(R) |-> dists[R[a]][R[b]]])])

\* Variant: the best match is compared with the next row of the class.
nb_mini_correct_shifted(dm, distance) == Cardinality({ a \in 1..Len(dm) : argmax(dm[a], distance) = a % Len(dm) })

\* numel(where(nb_mini - arange(size) == 0)) for the within-class matrix dm.
nb_mini_correct(dm, distance) == Cardinality({ a \in 1..Len(dm) : argmax(dm[a], distance) = a - 1 })

\* The number of rows of class i whose best match among the rows of class i
\* is the row itself.
class_correct(dists, distance, labels, i) ==
    nb_mini_correct(dists_mini(dists, class_rows(labels, i)), distance)

\* Variant: an empty class is given the accuracy 0 / 0.
class_acc_divide(size, correct) == [ nan |-> FALSE, num |-> correct, den |-> size ]

\* class_accs.append(float('nan')) for an empty class, else correct / size.
class_acc(size, correct) ==
    IF size = 0 THEN [ nan |-> TRUE, num |-> 0, den |-> 0 ]
    ELSE [ nan |-> FALSE, num |-> correct, den |-> size ]

\* The confusion-matrix branch of clip_acc for default targets.
clip_acc_confusion(dists, neighbors, t, distance, labels, ls, n, m) ==
    IF \E r \in 1..n : neighbors[r] >= Len(labels) \/ t[r] >= Len(labels) THEN AccRaised("IndexError")
    ELSE IF \E r \in 1..n : labels[neighbors[r] + 1] >= ls \/ labels[t[r] + 1] >= ls THEN AccRaised("IndexError")
    ELSE IF (\E i \in 0..(ls - 1) : class_size(labels, i) > 0) /\ (Len(labels) # n \/ Len(labels) # m)
    THEN AccRaised("IndexError")
    ELSE AccOutcome("ok", neighbors, t, << >>,
                    [i \in 1..ls |-> class_acc(class_size(labels, i - 1),
                                                class_correct(dists, distance, labels, i - 1))],
                    [i \in 1..ls |-> class_size(labels, i - 1)],
                    confusion_matrix(label_pairs(neighbors, t, labels), ls))

\* clip_acc from the argmax on: the plain branch, or the confusion-matrix
\* branch; sub_ok tells whether neighbors - targets can be formed.
clip_acc_branches(dists, neighbors, t, sub_ok, distance, as_confusion_matrix, labels, ls, default_targets, n, m) ==
    IF ~as_confusion_matrix
    THEN IF ~sub_ok THEN AccRaised("TorchError")
         ELSE AccOutcome("ok", neighbors, t, << plain_correct(neighbors, t), n >>, << >>, << >>, << >>)
    ELSE IF ~default_targets THEN AccRaised("ValueError")
    ELSE clip_acc_confusion(dists, neighbors, t, distance, labels, ls, n, m)

\* clip_acc from the similarity matrix on.
clip_acc_from_dists(dists, t, sub_ok, distance, as_confusion_matrix, labels, ls, default_targets, n, m) ==
    clip_acc_branches(dists, argmax_rows(dists, distance), t, sub_ok, distance, as_confusion_matrix,
                      labels, ls, default_targets, n, m)

\* clip_acc, both modes.
clip_acc(z1, z2, distance, as_confusion_matrix, labels, label_size, remove_duplicates, targets) ==
    LET pre == clip_acc_targets(z1, z2, distance, remove_duplicates, targets)
    IN  IF ~pre.similarity \/ pre.status = "IndexError" THEN AccRaised(pre.status)
        ELSE clip_acc_from_dists(similarity(z1, clip_z2(z2, remove_duplicates), distance).value,
                                 pre.labels, pre.status = "ok", distance, as_confusion_matrix, labels,
                                 IF as_confusion_matrix THEN effective_label_size(labels, label_size) ELSE 0,
                                 targets = << >>, Len(z1), pre.cols)

\* The embedding rows tried: the zero row, two rows that are positive
\* multiples of one another, and a row parallel to neither.
AccRows == { <<0, 0>>, <<1, 0>>, <<1, 1>>, <<2, 2>> }
AccBatches == UNION { [1..n -> AccRows] : n \in 1..MaxRows }

\* The class labels and the label_size arguments tried (-1 is the default).
Classes == { 0, 1 }
LabelSizes == { 0 - 1, 3 }

InitAcc ==
    \E z2 \in AccBatches, dist \in Distances, rd \in BOOLEAN, ls \in LabelSizes :
    \E n \in { Len(z2), (Len(z2) % MaxRows) + 1 } :
    \E lb \in [1..n -> Classes] :
        /\ args = [ z1 |-> Paired(z2, n), z2 |-> z2, distance |-> dist, remove_duplicates |-> rd,
                    targets |-> << >>, labels |-> lb, label_size |-> ls ]
        /\ optimizers = << >>
        /\ schedulers = << >>
        /\ lr_schedulers = << >>
        /\ e = 0
        /\ it = 0
        /\ pc = "call"
        /\ calls = 0
        /\ result = [ fn |-> "none", status |-> "none" ]

CallEuclideanDist ==
    /\ pc = "call"
    /\ LET r == euclidean_dist(args.z1, args.z2)
       IN  result' = [ fn |-> "euclidean_dist", status |-> r.status, value |-> r.value ]
    /\ pc' = "returned"
    /\ calls' = calls + 1
    /\ UNCHANGED <<args, optimizers, schedulers, lr_schedulers, e, it>>

CallClipAccPlain ==
    /\ pc = "call"
    /\ result' = [ clip_acc(args.z1, args.z2, args.distance, FALSE, args.labels, args.label_size,
                             args.remove_duplicates, args.targets)
                    EXCEPT !.fn = "clip_acc_plain" ]
    /\ pc' = "returned"
    /\ calls' = calls + 1
    /\ UNCHANGED <<args, optimizers, schedulers, lr_schedulers, e, it>>

CallClipAccConfusion ==
    /\ pc = "call"
    /\ result' = [ clip_acc(args.z1, args.z2, args.distance, TRUE, args.labels, args.label_size,
                             args.remove_duplicates, args.targets)
                    EXCEPT !.fn = "clip_acc_confusion" ]
    /\ pc' = "returned"
    /\ calls' = calls + 1
    /\ UNCHANGED <<args, optimizers, schedulers, lr_schedulers, e, it>>

NextAcc == CallEuclideanDist \/ CallClipAccPlain \/ CallClipAccConfusion

SpecAcc == InitAcc /\ [][NextAcc]_vars

(***************************************************************************)
(* Properties of the similarity values and of clip_acc.                    *)
(***************************************************************************)

\* C12: for z1 with n rows and z2 with m rows of equal feature dimension, n
\* and m equal or not, euclidean_dist returns the n x m matrix with entry
\* (i, j) = 2 z1_i.z2_j - |z1_i|^2 - |z2_j|^2, which is minus the squared
\* distance of the two rows: never positive, and 0 exactly for equal rows.
C12_EuclideanDist ==
    (pc = "returned" /\ result.fn = "euclidean_dist" /\ feature_dim(args.z1) = feature_dim(args.z2)) =>
        /\ result.status = "ok"
        /\ Len(result.value) = Len(args.z1)
        /\ \A i \in 1..Len(args.z1) :
              /\ Len(result.value[i]) = Len(args.z2)
              /\ \A j \in 1..Len(args.z2) :
                    LET a == args.z1[i]
                        b == args.z2[j]
                        v == result.value[i][j]
                    IN  /\ v = 2 * dot(a, b) - dot(a, a) - dot(b, b)
                        /\ v = 0 - dot([k \in 1..Len(a) |-> a[k] - b[k]], [k \in 1..Len(a) |-> a[k] - b[k]])
                        /\ v <= 0
                        /\ (v = 0) <=> (a = b)

\* Row b is a positive multiple of row a (both nonzero, cosine 1).
PositiveMultiple(a, b) ==
    dot(a, b) > 0 /\ dot(a, b) * dot(a, b) = dot(a, a) * dot(b, b)

\* The number of rows of z that repeat an earlier row of z.
RepeatedRows(z) == Cardinality({ i \in 1..Len(z) : \E j \in 1..(i - 1) : z[j] = z[i] })

\* C13 (as stated): clip_acc in plain mode called with z1 identical to z2 and
\* identity targets returns exactly 1.0, whatever the batch and the distance
\* mode, repeated rows and rows that are positive multiples included.
C13_Original ==
    (/\ pc = "returned" /\ result.fn = "clip_acc_plain"
     /\ args.z1 = args.z2 /\ args.targets = << >> /\ ~args.remove_duplicates) =>
        /\ result.status = "ok"
        /\ result.acc = << Len(args.z1), Len(args.z1) >>

\* C13 (amended): clip_acc in plain mode called with z1 identical to z2,
\* identity targets and remove_duplicates=false returns n / n = 1.0 when the
\* rows are pairwise distinct (euclidean), or nonzero and no row a positive
\* multiple of another (cosine); every row that repeats an earlier row is
\* matched to an earlier copy and counts as a miss, so a batch with a repeated
\* row gets less than 1.0.  With remove_duplicates=true and cosine distance a
\* batch of nonzero rows in which no two different rows are positive
\* multiples gets 1.0, repeated rows included.
C13_IdenticalBatches ==
    (/\ pc = "returned" /\ result.fn = "clip_acc_plain"
     /\ args.z1 = args.z2 /\ args.targets = << >>) =>
        LET z == args.z1
            n == Len(z)
            nonzero == \A i \in 1..n : dot(z[i], z[i]) > 0
        IN  /\ ~args.remove_duplicates =>
                /\ result.status = "ok"
                /\ result.acc[2] = n
                /\ result.acc[1] <= n - RepeatedRows(z)
                /\ (args.distance = "euclidean" /\ RepeatedRows(z) = 0) => result.acc = << n, n >>
                /\ (/\ args.distance = "cosine" /\ nonzero
                    /\ \A i \in 1..n, j \in 1..n : i # j => ~PositiveMultiple(z[i], z[j]))
                      => result.acc = << n, n >>
            /\ (/\ args.remove_duplicates /\ args.distance = "cosine" /\ nonzero
                /\ \A i \in 1..n, j \in 1..n : z[i] # z[j] => ~PositiveMultiple(z[i], z[j]))
                  => (result.status = "ok" /\ result.acc = << n, n >>)

\* C13 witness: three pairwise distinct rows under euclidean distance, every
\* row matched to itself.
C13_Witness ==
    /\ pc = "returned" /\ result.fn = "clip_acc_plain" /\ result.status = "ok"
    /\ args.z1 = args.z2 /\ args.targets = << >> /\ ~args.remove_duplicates
    /\ args.distance = "euclidean" /\ Len(args.z1) = 3 /\ RepeatedRows(args.z1) = 0
    /\ result.neighbors = << 0, 1, 2 >>
    /\ result.acc = << 3, 3 >>

(***************************************************************************)
(* evaluate_single with clip_inv=True: for every modality other than the   *)
(* base one, the validation batches are embedded by the two encoders and   *)
(* passed to clip_acc (plain), info_nce and clip_acc (confusion matrix);   *)
(* the per-batch results are then aggregated and printed.  The by-type     *)
(* passes of an expensive evaluation fill lists of their own and are left  *)
(* out.  What the encoders return for a batch is an input of the model.    *)
(***************************************************************************)
MaxBatches == 2

\* datahandler.num_types
num_types == 3

\* args.type_reps values tried.
TypeReps == { 2 }

\* The validation batches tried, of three rows each: the outputs of the base
\* encoder and of the compared encoder, and the class labels elem["type"].
\* In the first every row is its own best match and only class 0 occurs; in
\* the second every row is matched to row 0 and classes 0 and 1 occur.
EvalBatches ==
    { [ base |-> << <<1, 0>>, <<1, 1>>, <<0, 1>> >>, comp |-> << <<1, 0>>, <<1, 1>>, <<0, 1>> >>,
        type |-> << 0, 0, 0 >> ],
      [ base |-> << <<1, 0>>, <<1, 0>>, <<1, 0>> >>, comp |-> << <<1, 0>>, <<1, 0>>, <<1, 1>> >>,
        type |-> << 0, 0, 1 >> ] }

RECURSIVE seq_sum(_, _)
seq_sum(s, k) == IF k > Len(s) THEN 0 ELSE s[k] + seq_sum(s, k + 1)

\* np.sum(np.array(cms), axis=0) over a non-empty list of L x L matrices.
np_sum_axis0(cms) ==
    [i \in 1..Len(cms[1]) |-> [j \in 1..Len(cms[1]) |->
        seq_sum([b \in 1..Len(cms) |-> cms[b][i][j]], 1)]]

\* The sum of the fractions num / den of a list, as one fraction.
RECURSIVE frac_sum(_, _)
frac_sum(xs, k) ==
    IF k > Len(xs) THEN [ num |-> 0, den |-> 1 ]
    ELSE LET rest == frac_sum(xs, k + 1)
         IN  [ num |-> xs[k].num * rest.den + rest.num * xs[k].den, den |-> xs[k].den * rest.den ]

\* The mean of a non-empty list of fractions.
frac_mean(xs) ==
    [ nan |-> FALSE, num |-> frac_sum(xs, 1).num, den |-> frac_sum(xs, 1).den * Len(xs) ]

\* Variant: a nan entry counts as an accuracy of 0.
nanmean_column_zero_fill(col) ==
    frac_mean([b \in 1..Len(col) |-> IF col[b].nan THEN [ nan |-> FALSE, num |-> 0, den |-> 1 ] ELSE col[b]])

\* np.nanmean of one column: the mean of the entries that are not nan, and
\* nan (with a warning, no exception) when every entry is nan.
nanmean_column(col) ==
    LET kept == SelectSeq(col, LAMBDA x : ~x.nan)
    IN  IF Len(kept) = 0 THEN [ nan |-> TRUE, num |-> 0, den |-> 0 ] ELSE frac_mean(kept)

\* np.nanmean(np.array(rows), axis=0) over a non-empty list of vectors.
nanmean_axis0(rows) ==
    [i \in 1..Len(rows[1]) |-> nanmean_column(tolist([b \in 1..Len(rows) |-> rows[b][i]]))]

\* A class size as the fraction size / 1.
as_frac(x) == [ nan |-> FALSE, num |-> x, den |-> 1 ]

\* The aggregation that follows the batch loops of one modality.
aggregate(cms, cms_acc, cms_total) ==
    [ cms        |-> np_sum_axis0(cms),
      cms_acc    |-> nanmean_axis0(cms_acc),
      cms_sample |-> nanmean_axis0([b \in 1..Len(cms_total) |->
                                       [i \in 1..Len(cms_total[b]) |-> as_frac(cms_total[b][i])]]) ]

\* num_rep of evaluate_single.
num_rep(a) == IF a.expensive THEN a.type_reps ELSE 1

\* The lists evaluate_single starts every modality with.
EvalLists(oit, evaluated) ==
    [ oit |-> oit, rep |-> 0, status |-> "ok", batches |-> << >>, acc |-> << >>, loss |-> << >>,
      neighbors |-> << >>, cms |-> << >>, cms_acc |-> << >>, cms_total |-> << >>,
      aggregated |-> FALSE, agg |-> [ cms |-> << >>, cms_acc |-> << >>, cms_sample |-> << >> ],
      evaluated |-> evaluated ]

\* Lines 439-445: the three results of a batch are appended to the lists r;
\* the first exception among them leaves evaluate_single.
eval_append(r, b, plain, loss, conf) ==
    IF plain.status # "ok" THEN [r EXCEPT !.status = plain.status]
    ELSE IF loss.status # "ok" THEN [r EXCEPT !.status = loss.status]
    ELSE IF conf.status # "ok" THEN [r EXCEPT !.status = conf.status]
    ELSE [r EXCEPT !.batches   = Append(@, b),
                   !.acc       = Append(@, plain.acc),
                   !.loss      = Append(@, loss.divisor),
                   !.neighbors = Append(@, conf.neighbors),
                   !.cms       = Append(@, conf.cm),
                   !.cms_acc   = Append(@, conf.class_accs),
                   !.cms_total = Append(@, conf.class_sizes)]

\* The body of the batch loop (lines 436-445) on batch b.
eval_body(r, b, distance) ==
    eval_append(r, b,
                clip_acc(b.base, b.comp, distance, FALSE, << >>, 0 - 1, FALSE, << >>),
                info_nce(<< b.base, b.comp >>, distance, TRUE, FALSE, FALSE, FALSE, default_lr_weight),
                clip_acc(b.base, b.comp, distance, TRUE, b.type, num_types, FALSE, << >>))

\* The loop counters (rep, it) and the position after a body that started
\* at batch index i0 and left the lists r1.
eval_advance(r1, i0, B) ==
    [ result |-> IF r1.status # "ok" \/ i0 + 1 < B THEN r1 ELSE [r1 EXCEPT !.rep = @ + 1],
      it     |-> IF r1.status # "ok" THEN i0 ELSE IF i0 + 1 < B THEN i0 + 1 ELSE 0,
      pc     |-> IF r1.status # "ok" THEN "raised" ELSE "eval" ]

InitEval ==
    \E K \in 2..MaxK, B \in 1..MaxBatches, ex \in BOOLEAN, tr \in TypeReps, eu \in BOOLEAN :
    \E idx \in 0..(K - 1) :
        /\ args = [ contrastive |-> K, encoder_idx |-> idx, batches |-> B, expensive |-> ex,
                    type_reps |-> tr, euclidean |-> eu ]
        /\ optimizers = << >>
        /\ schedulers = << >>
        /\ lr_schedulers = << >>
        /\ e = 0
        /\ it = 0
        /\ pc = "eval"
        /\ calls = 0
        /\ result = EvalLists(0, << >>)

\* `if oit == encoder_idx: continue`
EvalSkipSelf ==
    /\ pc = "eval"
    /\ result.oit < args.contrastive
    /\ result.oit = args.encoder_idx
    /\ result' = [result EXCEPT !.oit = @ + 1]
    /\ UNCHANGED <<args, optimizers, schedulers, lr_schedulers, e, it, pc, calls>>

\* One pass of `for it, elem in enumerate(val_loader)` for the modality oit;
\* the first pass for a modality starts from the empty lists.
EvalBatch ==
    /\ pc = "eval"
    /\ result.oit < args.contrastive
    /\ result.oit # args.encoder_idx
    /\ \/ result.aggregated
       \/ result.rep < num_rep(args)
    /\ \E b \in EvalBatches :
       \E nx \in { eval_advance(eval_body(IF result.aggregated
                                          THEN EvalLists(result.oit, result.evaluated) ELSE result,
                                          b, IF args.euclidean THEN "euclidean" ELSE "cosine"),
                                IF result.aggregated THEN 0 ELSE it, args.batches) } :
          /\ result' = nx.result
          /\ it' = nx.it
          /\ pc' = nx.pc
    /\ calls' = calls + 1
    /\ UNCHANGED <<args, optimizers, schedulers, lr_schedulers, e>>

\* The loops of a modality are over: the lists are aggregated and printed
\* (lines 523-555) and the modality loop moves on.
EvalAggregate ==
    /\ pc = "eval"
    /\ result.oit < args.contrastive
    /\ result.oit # args.encoder_idx
    /\ ~result.aggregated
    /\ result.rep = num_rep(args)
    /\ result' = [result EXCEPT !.agg = aggregate(result.cms, result.cms_acc, result.cms_total),
                                !.aggregated = TRUE,
                                !.evaluated = Append(@, << args.encoder_idx, result.oit >>),
                                !.oit = @ + 1]
    /\ UNCHANGED <<args, optimizers, schedulers, lr_schedulers, e, it, pc, calls>>

\* No modality is left: the retrieval evaluation is over.
EvalReturn ==
    /\ pc = "eval"
    /\ result.oit = args.contrastive
    /\ pc' = "done"
    /\ UNCHANGED <<args, optimizers, schedulers, lr_schedulers, e, it, calls, result>>

NextEval == EvalSkipSelf \/ EvalBatch \/ EvalAggregate \/ EvalReturn

SpecEval == InitEval /\ [][NextEval]_vars

(***************************************************************************)
(* Properties of the evaluation.                                           *)
(***************************************************************************)

\* The sum of all entries of a square matrix.
MatrixTotal(m) ==
    seq_sum([k \in 1..(Len(m) * Len(m)) |-> m[((k - 1) \div Len(m)) + 1][((k - 1) % Len(m)) + 1]], 1)

\* The number of rows of batch b whose class is j.
Support(b, j) == Cardinality({ r \in 1..Len(b.type) : b.type[r] = j })

\* C14: for every evaluated batch the confusion matrix has entry (i, j) equal
\* to the number of rows whose true class is j and whose best-match row has
\* class i, a best-match row being one of largest similarity; its entries sum
\* to the number of rows of the batch and column j sums to the support of
\* class j; the matrix evaluate_single reports for a modality is the
\* entrywise sum over all batches and repetitions, and its entries sum to the
\* number of rows evaluated.
C14_ConfusionCounts ==
    (pc \in { "eval", "done" }) =>
        /\ \A b \in 1..Len(result.cms) :
              LET bt == result.batches[b]
                  nb == result.neighbors[b]
                  cm == result.cms[b]
                  n  == Len(bt.base)
                  d  == similarity(bt.base, bt.comp, IF args.euclidean THEN "euclidean" ELSE "cosine").value
              IN  /\ Len(cm) = num_types
                  /\ \A r \in 1..n : \A k \in 1..n :
                        ~sim_less(IF args.euclidean THEN "euclidean" ELSE "cosine", d[r][nb[r] + 1], d[r][k])
                  /\ \A i \in 0..(num_types - 1), j \in 0..(num_types - 1) :
                        cm[i + 1][j + 1] =
                            Cardinality({ r \in 1..n : bt.type[r] = j /\ bt.type[nb[r] + 1] = i })
                  /\ MatrixTotal(cm) = n
                  /\ \A j \in 0..(num_types - 1) :
                        seq_sum([i \in 1..num_types |-> cm[i][j + 1]], 1) = Support(bt, j)
        /\ result.aggregated =>
              /\ Len(result.cms) = num_rep(args) * args.batches
              /\ \A i \in 1..num_types, j \in 1..num_types :
                    result.agg.cms[i][j] = seq_sum([b \in 1..Len(result.cms) |-> result.cms[b][i][j]], 1)
              /\ MatrixTotal(result.agg.cms) =
                    seq_sum([b \in 1..Len(result.batches) |-> Len(result.batches[b].base)], 1)

\* C14 witness: an expensive evaluation aggregated two repetitions of two
\* batches, twelve rows in all, some of them matched to a row of another class.
C14_Witness ==
    /\ pc = "eval" /\ result.aggregated
    /\ args.expensive /\ args.batches = 2 /\ Len(result.cms) = 4
    /\ MatrixTotal(result.agg.cms) = 12
    /\ result.agg.cms[1][2] > 0

\* C15: in every evaluated batch a class without rows has class size 0 and
\* the nan placeholder as its accuracy, a class with rows has an accuracy
\* correct / size with 0 <= correct <= size, and no batch raises; the
\* per-class accuracy evaluate_single reports is, for a class with rows in at
\* least one batch, the mean of its accuracies over exactly the batches where
\* it has rows, and nan for a class with rows in no batch.  (A class has at
\* most three rows, so six times an accuracy is an integer.)
C15_NanClasses ==
    /\ pc # "raised"
    /\ (pc \in { "eval", "done" }) =>
        /\ \A b \in 1..Len(result.cms_acc), i \in 0..(num_types - 1) :
              LET size == Support(result.batches[b], i)
                  a    == result.cms_acc[b][i + 1]
              IN  /\ result.cms_total[b][i + 1] = size
                  /\ (size = 0) => a.nan
                  /\ (size > 0) => (~a.nan /\ a.den = size /\ a.num >= 0 /\ a.num <= a.den)
        /\ result.aggregated =>
              \A i \in 0..(num_types - 1) :
                  LET S == { b \in 1..Len(result.batches) : Support(result.batches[b], i) > 0 }
                      m == result.agg.cms_acc[i + 1]
                  IN  /\ (S = { }) => m.nan
                      /\ (S # { }) =>
                            /\ ~m.nan /\ m.den > 0
                            /\ m.num * 6 * Cardinality(S) =
                                  m.den * seq_sum([b \in 1..Len(result.batches) |->
                                              IF b \in S
                                              THEN (6 * result.cms_acc[b][i + 1].num) \div result.cms_acc[b][i + 1].den
                                              ELSE 0], 1)

\* C15 witness: of two aggregated batches only the second has rows of class
\* 1, all of them matched within the class; the reported accuracy of class 1
\* is 1, that of class 0 is the mean 3/4 of 1 and 1/2, and class 2 is nan.
C15_Witness ==
    /\ pc = "eval" /\ result.aggregated /\ Len(result.batches) = 2
    /\ result.cms_acc[1][2].nan /\ ~result.cms_acc[2][2].nan
    /\ ~result.agg.cms_acc[2].nan /\ result.agg.cms_acc[2].num = result.agg.cms_acc[2].den
    /\ ~result.agg.cms_acc[1].nan /\ 4 * result.agg.cms_acc[1].num = 3 * result.agg.cms_acc[1].den
    /\ result.agg.cms_acc[3].nan

(***************************************************************************)
(* Shape of the precomputed learning-rate schedule.                        *)
(***************************************************************************)

\* The number of warmup entries of the schedule of the scheduler under test.
WarmupEntries == Len(warmup_lr_schedule(args.warmup_lr, args.base_lr, warmup_iter(args.iter_per_epoch, args.warmup_epochs), args.flat_warmup))

NonDecreasing(s, a, b) == \A k \in a..(b - 1) : s[k] <= s[k + 1]

NonIncreasing(s, a, b) == \A k \in a..(b - 1) : s[k] >= s[k + 1]

C17_Endpoints ==
    pc = "sched" =>
        LET s == schedulers[1].lr_schedule
            w == WarmupEntries
        IN  /\ (~args.flat_warmup /\ w >= 1) => (s[1] = args.warmup_lr /\ s[w] = args.base_lr)
            /\ args.flat_warmup => \A k \in 1..w : s[k] = args.warmup_lr
            /\ (Len(s) > w) => (s[w + 1] = args.base_lr /\ s[Len(s)] = args.final_lr)

\* C18: one invocation of evaluate_single with K modalities evaluates every
\* ordered pair (a, b) of modalities with a # b, K * (K - 1) pairs in all,
\* and no self-pair.
C18_AllOrderedPairs ==
    (pc = "done") =>
        LET pairs == { result.evaluated[k] : k \in 1..Len(result.evaluated) } IN
        /\ pairs = { << a, b >> \in (0..(args.contrastive - 1)) \X (0..(args.contrastive - 1)) : a # b }
        /\ Len(result.evaluated) = args.contrastive * (args.contrastive - 1)

(***************************************************************************)
(* run_script.py: the launcher.  A line of text is the sequence of its     *)
(* characters; a file is the list text.split("\n") yields for its text.   *)
(***************************************************************************)
MaxLines == 3

PathDirFlag == << "-", "-", "p", "a", "t", "h", "_", "d", "i", "r" >>

\* Two training commands, each with its own --path_dir.
CmdA == << "t", " " >> \o PathDirFlag \o << "=", "a" >>

CmdB == << "t", " " >> \o PathDirFlag \o << "=", "b" >>

\* The lines run_lines.txt is made of: an empty line, a line commented out
\* by an earlier run, and the two commands.
LineAlphabet == { << >>, << "#", " " >> \o CmdA, CmdA, CmdB }

\* Python `sub in x` for strings.
str_in(sub, x) == \E k \in 0..(Len(x) - Len(sub)) : SubSeq(x, k + 1, k + Len(sub)) = sub

\* Iterating over a Python string yields its characters, each a string of
\* length one.
iter_str(cmd) == [k \in 1..Len(cmd) |-> << cmd[k] >>]

\* x.rfind(c): the 0-based index of the last occurrence of c in x, or -1.
rfind(x, c) ==
    IF \E k \in 1..Len(x) : x[k] = c
    THEN (CHOOSE k \in 1..Len(x) : x[k] = c /\ \A j \in (k + 1)..Len(x) : x[j] # c) - 1
    ELSE 0 - 1

\* x[x.rfind("=") + 1:]
after_equals(x) == SubSeq(x, rfind(x, "=") + 2, Len(x))

\* `len(line) == 0 or line[0] == "#"`
skipped(line) == IF Len(line) = 0 THEN TRUE ELSE line[1] = "#"

\* The text written by `for l in lines: f.write(l + "\n")`, as a list of
\* lines: the final newline leaves an empty last element.
write_lines(lines) == lines \o << << >> >>

\* What truncating a file by open(..., "w") leaves until the text is flushed.
truncated == << << >> >>

\* The directory whose all.log the training job of cmd appends to
\* (args.path_dir, the value of the command's last option).
job_dir(cmd) == after_equals(cmd)

\* Variant: both device groups are the first one.
device_group_always_first(gpu) == "0,1,2,3"

\* run_line: the devices appended to the command as --gpu.
device_group(gpu) == IF gpu = 0 THEN "0,1,2,3" ELSE "4,5,6,7"

\* The for loop of clear over the elements x of cmd: for an x containing
\* "--path_dir" the log named by x is read; a missing log raises, a log
\* without 'Training complete' makes clear return, and otherwise the loop
\* goes on.  xs are the elements not yet visited.
RECURSIVE clear_scan(_, _)
clear_scan(xs, logs) ==
    IF xs = << >> THEN "proceed"
    ELSE IF ~str_in(PathDirFlag, Head(xs)) THEN clear_scan(Tail(xs), logs)
    ELSE IF after_equals(Head(xs)) \notin DOMAIN logs THEN "raise"
    ELSE IF logs[after_equals(Head(xs))] # "complete" THEN "return"
    ELSE clear_scan(Tail(xs), logs)

\* The list `lines` clear builds from the lines ls of run_lines.txt.
clear_lines(ls, cmd) ==
    [k \in 1..Len(ls) |->
        IF skipped(ls[k]) THEN ls[k]
        ELSE IF ls[k] = cmd THEN << "#", " " >> \o ls[k]
        ELSE ls[k]] \o << >>

\* A multiprocessing.Process running run_line(cmd, gpu), just started.
Process(cmd, gpu) ==
    [ cmd |-> cmd, gpu |-> gpu, devices |-> device_group(gpu), pc |-> "run_line",
      ls |-> << >>, lines |-> << >> ]

\* The files a text of at most n lines can hold.
RECURSIVE Files(_)
Files(n) ==
    IF n = 0 THEN { << >> }
    ELSE Files(n - 1) \cup { Append(f, l) : f \in { g \in Files(n - 1) : Len(g) = n - 1 }, l \in LineAlphabet }

\* The launcher has read run_lines.txt and is about to enter its loop; no
\* training job has run yet.
InitLaunch ==
    \E f \in Files(MaxLines) \ { << >> } :
        /\ args = [ ls |-> f ]
        /\ optimizers = << >>
        /\ schedulers = << >>
        /\ lr_schedulers = << >>
        /\ e = 0
        /\ it = 0
        /\ pc = "launch"
        /\ calls = 0
        /\ result = [ run_lines |-> f, run_lines_save |-> truncated, rs_log |-> << >>,
                      logs |-> [d \in { job_dir(CmdA), job_dir(CmdB) } |-> "incomplete"],
                      procs |-> << >>, previous_run |-> 0, p |-> 0 ]

\* `if len(line) == 0 or line[0] == "#": continue`
LaunchSkip ==
    /\ pc = "launch"
    /\ it < Len(args.ls)
    /\ skipped(args.ls[it + 1])
    /\ it' = it + 1
    /\ UNCHANGED <<args, optimizers, schedulers, lr_schedulers, e, pc, calls, result>>

\* `if previous_run == None`: the line is started on the first device group.
LaunchFirst ==
    /\ pc = "launch"
    /\ it < Len(args.ls)
    /\ ~skipped(args.ls[it + 1])
    /\ result.previous_run = 0
    /\ result' = [result EXCEPT !.procs = Append(@, Process(args.ls[it + 1], 0)),
                                !.previous_run = Len(result.procs) + 1,
                                !.p = Len(result.procs) + 1]
    /\ calls' = calls + 1
    /\ it' = it + 1
    /\ UNCHANGED <<args, optimizers, schedulers, lr_schedulers, e, pc>>

\* `else`: the line is started on the second device group and the launcher
\* goes on to join both processes.
LaunchSecond ==
    /\ pc = "launch"
    /\ it < Len(args.ls)
    /\ ~skipped(args.ls[it + 1])
    /\ result.previous_run # 0
    /\ result' = [result EXCEPT !.procs = Append(@, Process(args.ls[it + 1], 1)),
                                !.p = Len(result.procs) + 1]
    /\ calls' = calls + 1
    /\ pc' = "join_previous"
    /\ UNCHANGED <<args, optimizers, schedulers, lr_schedulers, e, it>>

\* previous_run.join() returns once that process has ended.
JoinPrevious ==
    /\ pc = "join_previous"
    /\ result.procs[result.previous_run].pc = "ended"
    /\ pc' = "join_p"
    /\ UNCHANGED <<args, optimizers, schedulers, lr_schedulers, e, it, calls, result>>

\* p.join() returns once that process has ended; previous_run = None.
JoinP ==
    /\ pc = "join_p"
    /\ result.procs[result.p].pc = "ended"
    /\ result' = [result EXCEPT !.previous_run = 0]
    /\ pc' = "launch"
    /\ it' = it + 1
    /\ UNCHANGED <<args, optimizers, schedulers, lr_schedulers, e, calls>>

\* The loop is over.
LaunchEnd ==
    /\ pc = "launch"
    /\ it = Len(args.ls)
    /\ pc' = "exit"
    /\ UNCHANGED <<args, optimizers, schedulers, lr_schedulers, e, it, calls, result>>

\* The positions of the launcher while its processes run.
LaunchedPcs == { "launch", "join_previous", "join_p", "exit" }

\* run_line in process i: the line appended to rs_log.txt.
RunLineLog ==
    /\ pc \in LaunchedPcs
    /\ \E i \in 1..Len(result.procs) :
          /\ result.procs[i].pc = "run_line"
          /\ result' = [result EXCEPT !.rs_log = Append(@, << result.procs[i].cmd, result.procs[i].devices >>),
                                      !.procs[i].pc = "subprocess"]
          /\ UNCHANGED <<args, optimizers, schedulers, lr_schedulers, e, it, pc, calls>>

\* subprocess.run returns in process i, whatever the exit status of the job:
\* the job either reached '[Pretraining] Training complete' or did not; a
\* marker an earlier job appended to the same log stays there.
SubprocessRun ==
    /\ pc \in LaunchedPcs
    /\ \E i \in 1..Len(result.procs) :
          /\ result.procs[i].pc = "subprocess"
          /\ \E outcome \in { "complete", "incomplete" } :
                result' = [result EXCEPT !.logs[job_dir(result.procs[i].cmd)] =
                                              IF @ = "complete" THEN @ ELSE outcome,
                                         !.procs[i].pc = "clear"]
          /\ UNCHANGED <<args, optimizers, schedulers, lr_schedulers, e, it, pc, calls>>

\* clear(cmd) in process i, up to the end of its for loop: a raise or a return
\* ends run_line.
ClearScan ==
    /\ pc \in LaunchedPcs
    /\ \E i \in 1..Len(result.procs) :
          /\ result.procs[i].pc = "clear"
          /\ result' = [result EXCEPT !.procs[i].pc =
                              IF clear_scan(iter_str(result.procs[i].cmd), result.logs) = "proceed"
                              THEN "read" ELSE "ended"]
          /\ UNCHANGED <<args, optimizers, schedulers, lr_schedulers, e, it, pc, calls>>

\* clear in process i reads run_lines.txt and builds `lines`.
ClearRead ==
    /\ pc \in LaunchedPcs
    /\ \E i \in 1..Len(result.procs) :
          /\ result.procs[i].pc = "read"
          /\ result' = [result EXCEPT !.procs[i].ls = result.run_lines,
                                      !.procs[i].lines = clear_lines(result.run_lines, result.procs[i].cmd),
                                      !.procs[i].pc = "save"]
          /\ UNCHANGED <<args, optimizers, schedulers, lr_schedulers, e, it, pc, calls>>

\* clear in process i writes what it read to run_lines_save.txt.
ClearSave ==
    /\ pc \in LaunchedPcs
    /\ \E i \in 1..Len(result.procs) :
          /\ result.procs[i].pc = "save"
          /\ result' = [result EXCEPT !.run_lines_save = write_lines(result.procs[i].ls),
                                      !.procs[i].pc = "open"]
          /\ UNCHANGED <<args, optimizers, schedulers, lr_schedulers, e, it, pc, calls>>

\* clear in process i opens run_lines.txt for writing, which empties it.
ClearOpen ==
    /\ pc \in LaunchedPcs
    /\ \E i \in 1..Len(result.procs) :
          /\ result.procs[i].pc = "open"
          /\ result' = [result EXCEPT !.run_lines = truncated,
                                      !.procs[i].pc = "write"]
          /\ UNCHANGED <<args, optimizers, schedulers, lr_schedulers, e, it, pc, calls>>

\* clear in process i writes `lines` and closes the file; run_line ends.
ClearWrite ==
    /\ pc \in LaunchedPcs
    /\ \E i \in 1..Len(result.procs) :
          /\ result.procs[i].pc = "write"
          /\ result' = [result EXCEPT !.run_lines = write_lines(result.procs[i].lines),
                                      !.procs[i].pc = "ended"]
          /\ UNCHANGED <<args, optimizers, schedulers, lr_schedulers, e, it, pc, calls>>

NextLaunch ==
    \/ LaunchSkip \/ LaunchFirst \/ LaunchSecond \/ JoinPrevious \/ JoinP \/ LaunchEnd
    \/ RunLineLog \/ SubprocessRun \/ ClearScan \/ ClearRead \/ ClearSave \/ ClearOpen \/ ClearWrite

SpecLaunch == InitLaunch /\ [][NextLaunch]_vars

(***************************************************************************)
(* Properties of the launcher.                                             *)
(***************************************************************************)

\* C19: a process gets past the completion check of clear, to the read and
\* the rewrite of run_lines.txt, only if the log of its job contains
\* 'Training complete'; after a job whose log lacks the marker run_lines.txt
\* is not rewritten.
C19_MarkOnlyIfComplete ==
    (pc \in LaunchedPcs) =>
        \A i \in 1..Len(result.procs) :
            (result.procs[i].pc \in { "read", "save", "open", "write" }) =>
                result.logs[job_dir(result.procs[i].cmd)] = "complete"

runnable(line) == ~skipped(line)

\* The number of lines of run_lines.txt the launcher's loop has taken up.
LinesTaken == IF pc \in { "join_previous", "join_p" } THEN it + 1 ELSE it

\* C20: at every moment at most two job processes are running, two running
\* processes are on different device groups (0-3 and 4-7), the first job of a
\* pair is started only when every job started before it has ended, and the
\* jobs started so far are the runnable lines the loop has taken up, each
\* once and in file order; when the loop is over these are all runnable
\* lines of the file.
C20_Scheduling ==
    (pc \in LaunchedPcs) =>
        LET P       == result.procs
            running == { i \in 1..Len(P) : P[i].pc # "ended" }
        IN  /\ Cardinality(running) <= 2
            /\ \A i \in running : P[i].devices \in { "0,1,2,3", "4,5,6,7" }
            /\ \A i \in running, j \in running : (i # j) => (P[i].devices # P[j].devices)
            /\ \A j \in 1..Len(P) :
                  /\ P[j].gpu = (j - 1) % 2
                  /\ (P[j].gpu = 0) => \A i \in 1..(j - 1) : P[i].pc = "ended"
            /\ [k \in 1..Len(P) |-> P[k].cmd] = SelectSeq(SubSeq(args.ls, 1, LinesTaken), runnable)
            /\ (pc = "exit") => Len(P) = Len(SelectSeq(args.ls, runnable))

\* C20 witness: the file had three runnable lines; the first two jobs ran as
\* a pair and have ended, and the third job is running on the first device
\* group after the loop is over.
C20_Witness ==
    /\ pc = "exit"
    /\ Len(result.procs) = 3
    /\ result.procs[1].pc = "ended" /\ result.procs[2].pc = "ended"
    /\ result.procs[1].devices = "0,1,2,3" /\ result.procs[2].devices = "4,5,6,7"
    /\ result.procs[3].pc = "subprocess" /\ result.procs[3].devices = "0,1,2,3"
    /\ Len(result.rs_log) = 3

(***************************************************************************)
(* main: configuration validation and the phases.  Strings are sequences   *)
(* of characters, as in the launcher.                                      *)
(***************************************************************************)
ValidateWord == << "v", "a", "l", "i", "d", "a", "t", "e" >>

PretrainWord == << "p", "r", "e", "t", "r", "a", "i", "n" >>

PretrainingWord == PretrainWord \o << "i", "n", "g" >>

EvaluateWord == << "e", "v", "a", "l", "u", "a", "t", "e" >>

\* "(" + w1 + "," + ... + ")" for a list of words.
RECURSIVE comma_joined(_)
comma_joined(ws) ==
    IF Len(ws) = 0 THEN << >>
    ELSE IF Len(ws) = 1 THEN ws[1]
    ELSE ws[1] \o << "," >> \o comma_joined(Tail(ws))

paren_list(ws) == << "(" >> \o comma_joined(ws) \o << ")" >>

\* The values of --mode tried; the second one is the default.
Modes ==
    { ValidateWord,
      paren_list(<< ValidateWord, PretrainingWord, EvaluateWord >>),
      paren_list(<< ValidateWord >>),
      paren_list(<< PretrainingWord >>),
      paren_list(<< EvaluateWord >>),
      paren_list(<< PretrainingWord, EvaluateWord >>),
      paren_list(<< EvaluateWord, PretrainingWord >>),
      PretrainingWord }

\* The values of --contrastive tried: none, one and two data types.
Contrastives == { << >>, << "a" >>, paren_list(<< << "a" >>, << "b" >> >>) }

\* The values of --zero_shot and --finetune tried.
Targets == { << >>, << "c" >> }

\* The three inn.replace calls of string_to_list, character by character.
RECURSIVE replace_brackets(_)
replace_brackets(inn) ==
    IF inn = << >> THEN << >>
    ELSE (IF Head(inn) = "(" THEN << "[", "\"" >>
          ELSE IF Head(inn) = ")" THEN << "\"", "]" >>
          ELSE IF Head(inn) = "," THEN << "\"", ",", "\"" >>
          ELSE << Head(inn) >>) \o replace_brackets(Tail(inn))

\* s.split(sep) for a non-empty separator.
RECURSIVE split(_, _)
split(s, sep) ==
    IF ~str_in(sep, s) THEN << s >>
    ELSE LET k == CHOOSE k \in 0..(Len(s) - Len(sep)) :
                    /\ SubSeq(s, k + 1, k + Len(sep)) = sep
                    /\ \A j \in 0..(k - 1) : SubSeq(s, j + 1, j + Len(sep)) # sep
         IN  << SubSeq(s, 1, k) >> \o split(SubSeq(s, k + Len(sep) + 1, Len(s)), sep)

\* eval of the text '["w1","w2",...]' string_to_list has built: the list of
\* the words between the quotes.
eval_list(s) == split(SubSeq(s, 3, Len(s) - 2), << "\"", ",", "\"" >>)

string_to_list(inn) ==
    IF Len(inn) = 0 THEN << >>
    ELSE LET r == replace_brackets(inn)
             a == IF r[1] # "[" THEN << "[", "\"" >> \o r ELSE r
             b == IF a[Len(a)] # "]" THEN a \o << "\"", "]" >> ELSE a
         IN  eval_list(b)

\* A value that is a Python str, and one that is a Python list of str.
Str(s) == [ kind |-> "str", val |-> s ]

List(l) == [ kind |-> "list", val |-> l ]

\* Python `x in c`: substring for a str, element for a list.
py_in(x, c) ==
    IF c.kind = "str" THEN str_in(x, c.val)
    ELSE \E k \in 1..Len(c.val) : c.val[k] = x

\* main up to the construction of the data handler: what it raises, or "ok"
\* with the rewritten args.
Raised(a, exc) == [ status |-> exc, args |-> a ]

\* Variant: the unimodal check looks for the mode that exists, 'pretraining'.
unimodal_modes_pretraining == { PretrainingWord, EvaluateWord }

\* The modes the unimodal check looks for: "pretrain" and "evaluate".
unimodal_modes == { PretrainWord, EvaluateWord }

\* The `if new_weights:` branch of main.
check_new_weights(a) ==
    IF a.contrastive.val = << >> THEN Raised(a, "ValueError")
    ELSE LET a1 == [a EXCEPT !.contrastive = List(string_to_list(a.contrastive.val)),
                             !.zero_shot = List(string_to_list(a.zero_shot.val)),
                             !.finetune = List(string_to_list(a.finetune.val))]
         IN  IF (\E w \in unimodal_modes : py_in(w, a1.mode)) /\ Len(a1.contrastive.val) < 2
             THEN Raised(a1, "NotImplementedError")
             ELSE IF py_in(ValidateWord, a1.mode) /\ Len(a1.zero_shot.val \o a1.finetune.val) = 1
             THEN Raised(a1, "ValueError")
             ELSE Raised(a1, "ok")

\* The `else:` branch of main: an existing experiment is loaded.
check_existing(a) ==
    IF a.contrastive.val # << >> \/ a.zero_shot.val # << >> \/ a.finetune.val # << >>
    THEN Raised(a, "ValueError")
    ELSE IF a.split_given THEN Raised(a, "ValueError")
    ELSE Raised(a, "ok")

\* The mode check of main.
check_mode(a) ==
    IF py_in(ValidateWord, a.mode)
    THEN IF a.mode.val = ValidateWord THEN Raised(a, "ok") ELSE Raised(a, "ValueError")
    ELSE Raised([a EXCEPT !.mode = List(string_to_list(a.mode.val))], "ok")

\* new_weights = args.new_weights or (not has_saved)
new_weights(a) == a.new_weights \/ ~a.has_saved

main_validation(a) ==
    IF a.path_dir = << >> THEN Raised(a, "UserWarning")
    ELSE LET m == check_mode(a) IN
         IF m.status # "ok" THEN m
         ELSE IF new_weights(m.args) THEN check_new_weights(m.args)
         ELSE check_existing(m.args)

\* main has been called with the parsed command line; has_saved is whether
\* the experiment directory holds a saved configuration.
InitMain ==
    \E mode \in Modes, con \in Contrastives, zs \in Targets, ft \in Targets,
       nw \in BOOLEAN, hs \in BOOLEAN, sg \in BOOLEAN, pd \in { << >>, << "x" >> } :
        /\ args = [ mode |-> Str(mode), contrastive |-> Str(con), zero_shot |-> Str(zs),
                    finetune |-> Str(ft), new_weights |-> nw, has_saved |-> hs,
                    split_given |-> sg, path_dir |-> pd ]
        /\ optimizers = << >>
        /\ schedulers = << >>
        /\ lr_schedulers = << >>
        /\ e = 0
        /\ it = 0
        /\ pc = "main"
        /\ calls = 0
        /\ result = [ status |-> "none", constructed |-> << >>, phases |-> << >>, log |-> << >> ]

\* main from its start to the end of the configuration checks.
MainValidation ==
    /\ pc = "main"
    /\ \E v \in { main_validation(args) } :
          /\ args' = v.args
          /\ result' = [result EXCEPT !.status = v.status]
          /\ pc' = IF v.status = "ok" THEN "construct" ELSE "main_raised"
    /\ UNCHANGED <<optimizers, schedulers, lr_schedulers, e, it, calls>>

\* The data handler and the encoders are constructed or loaded; either may
\* raise, outside the try block.
MainConstruct ==
    /\ pc = "construct"
    /\ \E outcome \in { "ok", "datahandler_raises", "encoders_raise" } :
          /\ result' = [result EXCEPT
                            !.constructed = IF outcome = "datahandler_raises" THEN << >>
                                            ELSE IF outcome = "encoders_raise" THEN << "datahandler" >>
                                            ELSE << "datahandler", "encoders" >>,
                            !.status = IF outcome = "ok" THEN "ok" ELSE "Exception"]
          /\ pc' = IF outcome = "ok" THEN "try_validate" ELSE "main_raised"
    /\ UNCHANGED <<args, optimizers, schedulers, lr_schedulers, e, it, calls>>

\* Variant: after a phase raised, the next phase is tried.
except_target_next(next) == next

\* `except Exception: pwint(traceback.format_exc())` leaves the try block.
except_target(next) == "after_try"

\* One `if <word> in args.mode: <phase>` statement of the try block: the
\* phase is skipped, returns, or raises an Exception that the handler logs.
try_phase(word, phase, next, outcome) ==
    IF ~py_in(word, args.mode)
    THEN [ result |-> result, pc |-> next ]
    ELSE IF outcome = "returns"
    THEN [ result |-> [result EXCEPT !.phases = Append(@, phase)], pc |-> next ]
    ELSE [ result |-> [result EXCEPT !.phases = Append(@, phase),
                                     !.status = "caught",
                                     !.log = Append(@, << "traceback", phase >>)],
           pc |-> except_target(next) ]

TryValidate ==
    /\ pc = "try_validate"
    /\ \E outcome \in { "returns", "raises" } :
       \E nx \in { try_phase(ValidateWord, "validate", "try_pretraining", outcome) } :
          /\ result' = nx.result
          /\ pc' = nx.pc
    /\ UNCHANGED <<args, optimizers, schedulers, lr_schedulers, e, it, calls>>

TryPretraining ==
    /\ pc = "try_pretraining"
    /\ \E outcome \in { "returns", "raises" } :
       \E nx \in { try_phase(PretrainingWord, "pretraining", "try_evaluate", outcome) } :
          /\ result' = nx.result
          /\ pc' = nx.pc
    /\ UNCHANGED <<args, optimizers, schedulers, lr_schedulers, e, it, calls>>

TryEvaluate ==
    /\ pc = "try_evaluate"
    /\ \E outcome \in { "returns", "raises" } :
       \E nx \in { try_phase(EvaluateWord, "evaluate", "after_try", outcome) } :
          /\ result' = nx.result
          /\ pc' = nx.pc
    /\ UNCHANGED <<args, optimizers, schedulers, lr_schedulers, e, it, calls>>

\* The bell loop, and main returns.
MainReturn ==
    /\ pc = "after_try"
    /\ pc' = "main_done"
    /\ UNCHANGED <<args, optimizers, schedulers, lr_schedulers, e, it, calls, result>>

NextMain == MainValidation \/ MainConstruct \/ TryValidate \/ TryPretraining \/ TryEvaluate \/ MainReturn

SpecMain == InitMain /\ [][NextMain]_vars

(***************************************************************************)
(* Properties of main.                                                     *)
(***************************************************************************)
MainPcs == { "main", "construct", "main_raised", "try_validate", "try_pretraining", "try_evaluate", "after_try", "main_done" }

PhaseRank(phase) == IF phase = "validate" THEN 1 ELSE IF phase = "pretraining" THEN 2 ELSE 3

PhaseWord(phase) ==
    IF phase = "validate" THEN ValidateWord ELSE IF phase = "pretraining" THEN PretrainingWord ELSE EvaluateWord

\* C21: the phases main starts are phases of the mode, each started at most
\* once and in the order validate, pretraining, evaluate; when a phase raises
\* an Exception, main does not raise, the run log holds exactly one traceback,
\* that of the phase started last, and no phase is started afterwards; when
\* no phase raises, every phase of the mode has been started once the try
\* block is left.
C21_PhaseOrder ==
    (pc \in MainPcs) =>
        LET ph == result.phases IN
        /\ \A i \in 1..Len(ph), j \in 1..Len(ph) : (i < j) => PhaseRank(ph[i]) < PhaseRank(ph[j])
        /\ \A i \in 1..Len(ph) : py_in(PhaseWord(ph[i]), args.mode)
        /\ (ph # << >>) => pc # "main_raised"
        /\ (result.status = "caught") =>
              /\ pc \in { "after_try", "main_done" }
              /\ result.log = << << "traceback", ph[Len(ph)] >> >>
        /\ (result.status # "caught") => result.log = << >>
        /\ (result.status # "caught" /\ pc \in { "after_try", "main_done" }) =>
              \A phase \in { "validate", "pretraining", "evaluate" } :
                  py_in(PhaseWord(phase), args.mode) <=> (\E i \in 1..Len(ph) : ph[i] = phase)

\* C21 witness: with the mode (pretraining,evaluate) pretraining raised; its
\* traceback is in the log, evaluate was never started and main returned.
C21_Witness ==
    /\ pc = "main_done"
    /\ args.mode = List(<< PretrainingWord, EvaluateWord >>)
    /\ result.status = "caught"
    /\ result.phases = << "pretraining" >>
    /\ result.log = << << "traceback", "pretraining" >> >>

\* C25: whenever main reaches the check with new weights, a mode list that
\* includes pretraining or evaluate and a single contrastive data type, it
\* raises NotImplementedError before any data handler or encoder is
\* constructed and before any phase starts.
C25_UnimodalRejected ==
    (/\ pc \in MainPcs /\ pc # "main"
     /\ args.path_dir # << >>
     /\ args.mode.kind = "list"
     /\ new_weights(args)
     /\ args.contrastive.kind = "list" /\ Len(args.contrastive.val) = 1
     /\ (py_in(PretrainingWord, args.mode) \/ py_in(EvaluateWord, args.mode)))
    => /\ result.status = "NotImplementedError"
       /\ result.constructed = << >>
       /\ result.phases = << >>

(***************************************************************************)
(* Properties of the periodic triggers of pretrain.                        *)
(***************************************************************************)
PretrainPcs == { "epoch", "done", "raised" }

\* v divides x, for x >= 1.
Divides(v, x) == \E k \in 0..x : k * v = x

\* pretrain did `kind` (for encoder k, if a weight file) at the end of epoch ep.
Has(kind, k, ep) ==
    \E i \in 1..Len(result.events) :
        result.events[i].kind = kind /\ result.events[i].k = k /\ result.events[i].e = ep

KindRank(kind) ==
    IF kind = "validation" THEN 1 ELSE IF kind = "evaluation" THEN 2
    ELSE IF kind = "weights" THEN 3 ELSE IF kind = "args" THEN 4 ELSE 5

\* Event x comes before event y: an earlier epoch, or the same epoch and
\* validation, evaluation, the weight files in encoder order, the
\* configuration snapshot, the embedding dump, in this order.
Before(x, y) ==
    \/ x.e < y.e
    \/ x.e = y.e /\ KindRank(x.kind) < KindRank(y.kind)
    \/ x.e = y.e /\ x.kind = y.kind /\ x.k < y.k

\* What the claim says of the epochs whose end pretrain got past, of the
\* order of what was done and of the embedding dump.
TriggersFire ==
    LET ev == result.events IN
    /\ \A ep \in 1..(e - 1) :
          /\ Has("validation", 0, ep) <=> Divides(args.val_every, ep)
          /\ Has("evaluation", 0, ep) <=> Divides(args.eval_every, ep)
          /\ \A k \in 1..Len(args.encoders) : Has("weights", k, ep) <=> Divides(args.save_every, ep)
          /\ Has("args", 0, ep) <=> Divides(args.save_every, ep)
    /\ \A i \in 1..Len(ev) :
          /\ ev[i].e \in 1..args.epochs
          /\ ev[i].calls = ev[i].e * epoch_batches(args)
          /\ (ev[i].kind = "weights") <=> (ev[i].k \in 1..Len(args.encoders))
          /\ (ev[i].kind = "embeddings") => (pc = "done" /\ i = Len(ev) /\ ev[i].e = args.epochs)
    /\ \A i \in 1..Len(ev), j \in 1..Len(ev) : (i < j) => Before(ev[i], ev[j])
    /\ (pc = "done") => (ev # << >> /\ ev[Len(ev)].kind = "embeddings")

MarkedLine(line, cmds) ==
    IF ~skipped(line) /\ line \in cmds THEN << "#", " " >> \o line ELSE line

\* C23: once the two processes of a pair have both returned from clear (and
\* no other process is running), the lines of both jobs are commented out in
\* run_lines.txt and every other line of the file the launcher read is
\* unchanged, whatever the interleaving of the two calls was.  (Empty lines a
\* rewrite adds at the end of the file are not counted.)
C23_NoLostMark ==
    (/\ pc \in LaunchedPcs
     /\ Len(result.procs) >= 2
     /\ \A i \in 1..Len(result.procs) : result.procs[i].pc = "ended")
    => /\ Len(result.run_lines) >= Len(args.ls)
       /\ \A k \in 1..Len(args.ls) :
             result.run_lines[k] =
                 MarkedLine(args.ls[k], { result.procs[i].cmd : i \in 1..Len(result.procs) })

\* C24: a call of _uni_info_nce with remove_duplicates=true, both_sides=true,
\* no explicit targets and as many rows in z2 as in z1 raises nothing; every
\* label is a row index of the pool [z1; unique(z2)] and none is the
\* placeholder -1000; the label of pool row i < n points at the pool row that
\* holds the representative of z2[i].
C24_RemapBothSides ==
    (/\ pc = "returned" /\ result.fn = "_uni_info_nce"
     /\ args.remove_duplicates /\ args.both_sides /\ args.targets = << >>
     /\ Len(args.z1) = Len(args.z2)
     /\ result.status # "UserWarning")
    => /\ result.status = "ok"
       /\ result.pool = args.z1 \o result.z2u
       /\ \A i \in 1..Len(result.labels) :
             result.labels[i] \in 0..(Len(result.pool) - 1)
       /\ \A i \in 1..Len(args.z1) :
             /\ result.labels[i] = Len(args.z1) + result.map_idx[i]
             /\ result.pool[result.labels[i] + 1] = args.z2[i]

(***************************************************************************)
(* Plain and within-class accuracy of clip_acc.                            *)
(***************************************************************************)

\* Row r is correct in the plain sense: no column of its row of d is more
\* similar than column r, and no earlier column is as similar.
GloballyCorrect(d, distance, r) ==
    \A s \in 1..Len(d[r]) :
        /\ ~sim_less(distance, d[r][r], d[r][s])
        /\ (s < r) => sim_less(distance, d[r][s], d[r][r])

\* Row r is correct within its class: the same among the columns of the rows
\* that share its label.
ClassCorrect(d, distance, labels, r) ==
    \A s \in 1..Len(d[r]) :
        (labels[s] = labels[r]) =>
            /\ ~sim_less(distance, d[r][r], d[r][s])
            /\ (s < r) => sim_less(distance, d[r][s], d[r][r])

\* C26: for clip_acc with identity targets, no deduplication and labels in
\* [0, label_size), every row that is correct in the plain sense is correct
\* within its class; the plain call counts the rows correct in the plain
\* sense and class_accs[c] is the number of rows of class c correct within
\* the class over class_sizes[c]; so n * plain accuracy is at most the sum
\* over the classes with rows of class_accs[c] * class_sizes[c], and the
\* class sizes sum to n.  (A class without rows has the nan placeholder and
\* adds nothing to the sum.)
C26_PlainWithinClass ==
    (/\ pc = "returned" /\ result.fn = "clip_acc_confusion" /\ result.status = "ok"
     /\ ~args.remove_duplicates /\ Len(args.z1) = Len(args.z2))
    => \E d \in { similarity(args.z1, args.z2, args.distance).value } :
       \E plain \in { clip_acc(args.z1, args.z2, args.distance, FALSE, args.labels, args.label_size,
                               FALSE, args.targets) } :
          LET n  == Len(args.z1)
              ls == Len(result.class_accs)
              G  == { r \in 1..n : GloballyCorrect(d, args.distance, r) }
              W  == { r \in 1..n : ClassCorrect(d, args.distance, args.labels, r) }
          IN  /\ G \subseteq W
              /\ plain.status = "ok" /\ plain.acc = << Cardinality(G), n >>
              /\ \A c \in 1..ls :
                    /\ result.class_sizes[c] = Cardinality({ r \in 1..n : args.labels[r] = c - 1 })
                    /\ result.class_accs[c].nan <=> (result.class_sizes[c] = 0)
                    /\ result.class_accs[c].den = result.class_sizes[c]
                    /\ result.class_accs[c].num = Cardinality({ r \in W : args.labels[r] = c - 1 })
              /\ plain.acc[1] <= seq_sum([c \in 1..ls |-> result.class_accs[c].num], 1)
              /\ seq_sum([c \in 1..ls |-> result.class_sizes[c]], 1) = n

\* C26 witness: three rows in two classes with tied similarities; one row is
\* correct in the plain sense, and more rows are correct within their class
\* than in the plain sense.
C26_Witness ==
    /\ pc = "returned" /\ result.fn = "clip_acc_confusion" /\ result.status = "ok"
    /\ ~args.remove_duplicates /\ Len(args.z1) = 3 /\ Len(args.z2) = 3
    /\ \E r \in 1..3 : args.labels[r] = 0
    /\ \E r \in 1..3 : args.labels[r] = 1
    /\ \E r \in 1..3, s \in 1..3 : r # s /\ args.z2[r] = args.z2[s]
    /\ Cardinality({ r \in 1..3 : result.neighbors[r] = r - 1 }) = 1
    /\ result.class_accs[1].num + result.class_accs[2].num = 3

====
